---- MODULE Spec2Model ----
(***************************************************************************)
(* A model of json-idempofy: canonical serialization (JCS), normalization, *)
(* nested path access, the four fingerprinting strategies and the hashing  *)
(* configuration.                                                          *)
(*                                                                         *)
(* JavaScript values are tagged records.  A string is a sequence of        *)
(* one-character strings, so that trimming, case folding, escaping and key *)
(* sorting are computed character by character.  A container is either     *)
(* written inline (a fresh object that nothing else references) or is a    *)
(* reference [t |-> "ref", a |-> address] into the caller's heap, which is *)
(* how shared and cyclic object graphs are expressed.  A finite number is  *)
(* an integer count of thousandths; the numbers used are dyadic, so the    *)
(* double arithmetic of the code is exact on them.                         *)
(***************************************************************************)
EXTENDS Integers, Sequences, FiniteSets, TLC

VARIABLES heap, in1, in2, cfg, out1, out2, cmp

vars == <<heap, in1, in2, cfg, out1, out2, cmp>>

(***************************************************************************)
(* Characters and strings                                                  *)
(***************************************************************************)

\* The characters of the model in UTF-16 code unit order.
Alphabet ==
  << " ", "\"", ",", "-", ".", "0", "1", "2", "3", "4", "5", "6", "7", "8", "9",
     ":", "A", "B", "C", "J", "T", "Z", "[", "\\", "]",
     "a", "b", "c", "d", "e", "i", "j", "l", "m", "n", "r", "s", "t", "u", "z",
     "{", "}" >>

\* The rank of a character in code unit order.
Code(c) == CHOOSE i \in 1..Len(Alphabet) : Alphabet[i] = c

\* String.prototype.toLowerCase on one character.
LowerChar(c) ==
  CASE c = "A" -> "a"
    [] c = "B" -> "b"
    [] c = "C" -> "c"
    [] c = "J" -> "j"
    [] c = "T" -> "t"
    [] c = "Z" -> "z"
    [] OTHER -> c

toLowerCase(s) == [i \in 1..Len(s) |-> LowerChar(s[i])]

RECURSIVE TrimStart(_)
TrimStart(s) ==
  IF s # <<>> /\ Head(s) = " " THEN TrimStart(Tail(s)) ELSE s

RECURSIVE TrimEnd(_)
TrimEnd(s) ==
  IF s # <<>> /\ s[Len(s)] = " " THEN TrimEnd(SubSeq(s, 1, Len(s) - 1)) ELSE s

\* String.prototype.trim
trim(s) == TrimEnd(TrimStart(s))

\* String.prototype.includes
includes(s, sub) ==
  \E i \in 1..(Len(s) - Len(sub) + 1) : SubSeq(s, i, i + Len(sub) - 1) = sub

\* The default comparison of Array.prototype.sort on strings.
RECURSIVE StrLess(_, _)
StrLess(s1, s2) ==
  IF s1 = <<>> THEN s2 # <<>>
  ELSE IF s2 = <<>> THEN FALSE
  ELSE IF Head(s1) = Head(s2) THEN StrLess(Tail(s1), Tail(s2))
  ELSE Code(Head(s1)) < Code(Head(s2))

RECURSIVE InsertSorted(_, _)
InsertSorted(k, sorted) ==
  IF sorted = <<>> THEN <<k>>
  ELSE IF StrLess(k, Head(sorted)) THEN <<k>> \o sorted
  ELSE <<Head(sorted)>> \o InsertSorted(k, Tail(sorted))

RECURSIVE sort(_)
sort(keys) ==
  IF keys = <<>> THEN <<>> ELSE InsertSorted(Head(keys), sort(Tail(keys)))

\* Array.prototype.join(',') over already serialized parts.
RECURSIVE join(_)
join(parts) ==
  IF parts = <<>> THEN <<>>
  ELSE IF Len(parts) = 1 THEN parts[1]
  ELSE parts[1] \o <<",">> \o join(Tail(parts))

(***************************************************************************)
(* Values                                                                  *)
(***************************************************************************)

Null == [t |-> "null"]
Undefined == [t |-> "undefined"]
Bool(b) == [t |-> "boolean", b |-> b]
Num(n) == [t |-> "number", k |-> "finite", n |-> n]
NaN == [t |-> "number", k |-> "NaN", n |-> 0]
Infinity == [t |-> "number", k |-> "Infinity", n |-> 0]
NegInfinity == [t |-> "number", k |-> "-Infinity", n |-> 0]
Str(s) == [t |-> "string", s |-> s]
DateV(ms) == [t |-> "date", ms |-> ms]
Func == [t |-> "function"]
SymbolV == [t |-> "symbol"]
Arr(items) == [t |-> "array", items |-> items]
Obj(kv) == [t |-> "object", kv |-> kv]
Ref(a) == [t |-> "ref", a |-> a]
KV(k, v) == [k |-> k, v |-> v]

\* A thrown exception, as the value an operation yields instead of a result.
Throw(e) == [t |-> "throw", error |-> e]

\* The container a value denotes: the heap cell of a reference, else itself.
Deref(h, v) == IF v.t = "ref" THEN h[v.a] ELSE v

isArray(h, v) == Deref(h, v).t = "array"

\* typeof value === 'object' for a non-null value.
isObjectType(h, v) == Deref(h, v).t \in {"object", "array", "date"}

\* Object.keys: the own enumerable keys in insertion order (array indices for an
\* array, none for a date or a primitive).
RECURSIVE Digits(_)
Digits(n) ==
  IF n < 10 THEN <<Alphabet[Code("0") + n]>>
  ELSE Digits(n \div 10) \o <<Alphabet[Code("0") + (n % 10)]>>

ObjectKeys(h, v) ==
  LET c == Deref(h, v) IN
  CASE c.t = "object" -> [i \in 1..Len(c.kv) |-> c.kv[i].k]
    [] c.t = "array" -> [i \in 1..Len(c.items) |-> Digits(i - 1)]
    [] OTHER -> <<>>

hasOwnProperty(c, key) == \E i \in 1..Len(c.kv) : c.kv[i].k = key

\* obj[key] on a plain object.
GetProp(c, key) ==
  IF hasOwnProperty(c, key)
  THEN c.kv[CHOOSE i \in 1..Len(c.kv) : c.kv[i].k = key].v
  ELSE Undefined

\* obj[key] = value on a plain object: an existing key keeps its position.
SetProp(kv, key, value) ==
  IF \E i \in 1..Len(kv) : kv[i].k = key
  THEN [i \in 1..Len(kv) |-> IF kv[i].k = key THEN KV(key, value) ELSE kv[i]]
  ELSE Append(kv, KV(key, value))

(***************************************************************************)
(* Canonicalizer (JCS)                                                     *)
(***************************************************************************)

\* The depth of nested calls after which the engine raises RangeError
\* ("Maximum call stack size exceeded").
StackLimit == 8

IsThrow(x) == x.t = "throw"

RangeError == Throw("RangeError")

\* The decimal scale of finite numbers: a number n stands for n / Scale.
Scale == 10 * 10 * 10

\* The fraction digits of f thousandths, without trailing zeros.
FracDigits(f) ==
  IF f % 100 = 0 THEN Digits(f \div 100)
  ELSE IF f % 10 = 0 THEN <<Digits(f \div 100)[1], Digits((f \div 10) % 10)[1]>>
  ELSE <<Digits(f \div 100)[1], Digits((f \div 10) % 10)[1], Digits(f % 10)[1]>>

\* JSON.stringify of a finite number.
NumToString(n) ==
  LET m == IF n < 0 THEN 0 - n ELSE n
      ip == Digits(m \div Scale)
      body == IF m % Scale = 0 THEN ip ELSE ip \o <<".">> \o FracDigits(m % Scale)
  IN IF n < 0 THEN <<"-">> \o body ELSE body

\* A canonicalizeNumber that prints every number as String(num) does.
canonicalizeNumberAsString(num) ==
  CASE num.k = "finite" -> NumToString(num.n)
    [] num.k = "NaN" -> <<"N", "a", "N">>
    [] num.k = "Infinity" -> <<"I", "n", "f", "i", "n", "i", "t", "y">>
    [] OTHER -> <<"-", "I", "n", "f", "i", "n", "i", "t", "y">>

canonicalizeNumber(num) ==
  IF num.k # "finite" THEN <<"n", "u", "l", "l">> ELSE NumToString(num.n)

RECURSIVE EscapeChars(_)
EscapeChars(s) ==
  IF s = <<>> THEN <<>>
  ELSE IF Head(s) \in {"\"", "\\"} THEN <<"\\", Head(s)>> \o EscapeChars(Tail(s))
  ELSE <<Head(s)>> \o EscapeChars(Tail(s))

\* A canonicalizeString that quotes the characters as they are.
canonicalizeStringUnescaped(s) == <<"\"">> \o s \o <<"\"">>

\* JSON.stringify of a string.
canonicalizeString(s) == <<"\"">> \o EscapeChars(s) \o <<"\"">>

RECURSIVE canonicalize(_, _, _)
RECURSIVE canonicalizeElements(_, _, _)
RECURSIVE canonicalizePairs(_, _, _, _)

\* arr.map(canonicalize): the serialized elements, or the exception raised.
canonicalizeElements(h, items, d) ==
  IF items = <<>> THEN [t |-> "parts", parts |-> <<>>]
  ELSE LET first == canonicalize(h, Head(items), d) IN
       IF IsThrow(first) THEN first
       ELSE LET rest == canonicalizeElements(h, Tail(items), d) IN
            IF IsThrow(rest) THEN rest
            ELSE [t |-> "parts", parts |-> <<first.s>> \o rest.parts]

canonicalizeArray(h, arr, d) ==
  IF arr.items = <<>> THEN Str(<<"[", "]">>)
  ELSE LET elements == canonicalizeElements(h, arr.items, d) IN
       IF IsThrow(elements) THEN elements
       ELSE Str(<<"[">> \o join(elements.parts) \o <<"]">>)

\* sortedKeys.map(key => canonicalizeString(key) + ':' + canonicalize(obj[key]))
canonicalizePairs(h, obj, keys, d) ==
  IF keys = <<>> THEN [t |-> "parts", parts |-> <<>>]
  ELSE LET value == canonicalize(h, GetProp(obj, Head(keys)), d) IN
       IF IsThrow(value) THEN value
       ELSE LET rest == canonicalizePairs(h, obj, Tail(keys), d) IN
            IF IsThrow(rest) THEN rest
            ELSE [t |-> "parts",
                  parts |-> <<canonicalizeString(Head(keys)) \o <<":">> \o value.s>>
                            \o rest.parts]

\* canonicalizeObject without its sort: the keys in insertion order.
CanonicalKeyOrderUnsorted(keys) == keys

\* The order in which canonicalizeObject emits the keys.
CanonicalKeyOrder(keys) == sort(keys)

canonicalizeObject(h, obj, d) ==
  LET keys == IF obj.t = "object" THEN [i \in 1..Len(obj.kv) |-> obj.kv[i].k] ELSE <<>> IN
  IF keys = <<>> THEN Str(<<"{", "}">>)
  ELSE LET pairs == canonicalizePairs(h, obj, CanonicalKeyOrder(keys), d) IN
       IF IsThrow(pairs) THEN pairs
       ELSE Str(<<"{">> \o join(pairs.parts) \o <<"}">>)

\* canonicalize(value) at call depth d: the canonical string, or the exception.
canonicalize(h, value, d) ==
  LET c == Deref(h, value) IN
  IF d > StackLimit THEN RangeError
  ELSE CASE c.t = "null" -> Str(<<"n", "u", "l", "l">>)
         [] c.t = "boolean" ->
              Str(IF c.b THEN <<"t", "r", "u", "e">> ELSE <<"f", "a", "l", "s", "e">>)
         [] c.t = "number" -> Str(canonicalizeNumber(c))
         [] c.t = "string" -> Str(canonicalizeString(c.s))
         [] c.t = "array" -> canonicalizeArray(h, c, d + 1)
         [] c.t \in {"object", "date"} -> canonicalizeObject(h, c, d + 1)
         [] OTHER -> Str(<<"n", "u", "l", "l">>)

toJCSString(h, value, d) == canonicalize(h, value, d)

(***************************************************************************)
(* Dates                                                                   *)
(***************************************************************************)

\* A date-typed value holding a valid instant, ms milliseconds after the epoch
\* (0 <= ms < 1000), and the date whose time value is NaN.
InvalidDate == [t |-> "date", ms |-> -1]

\* Date.prototype.toISOString for the instants of the model.
toISOString(ms) ==
  <<"1", "9", "7", "0", "-", "0", "1", "-", "0", "1", "T",
    "0", "0", ":", "0", "0", ":", "0", "0", ".">>
  \o <<Digits(ms \div 100)[1], Digits((ms \div 10) % 10)[1], Digits(ms % 10)[1]>>
  \o <<"Z">>

\* The same instant written without the fraction of a second.
ISONoMillis ==
  <<"1", "9", "7", "0", "-", "0", "1", "-", "0", "1", "T",
    "0", "0", ":", "0", "0", ":", "0", "0", "Z">>

\* The largest millisecond count of the instants the model parses.
MaxMs == 2

\* new Date(str).getTime() on the strings of the model: the instant of an
\* ISO-8601 UTC string, and -1 (NaN) for a string that is no date.
DateParse(s) ==
  IF \E ms \in 0..MaxMs : s = toISOString(ms)
  THEN CHOOSE ms \in 0..MaxMs : s = toISOString(ms)
  ELSE IF s = ISONoMillis THEN 0
  ELSE -1

\* value.toISOString(): RangeError ("Invalid time value") on an invalid date.
DateToISO(date) ==
  IF date.ms < 0 THEN RangeError ELSE Str(toISOString(date.ms))

(***************************************************************************)
(* Normalizer                                                              *)
(***************************************************************************)

\* {...defaults, ...overrides}
Spread(defaults, overrides) ==
  [k \in DOMAIN defaults \cup DOMAIN overrides |->
     IF k \in DOMAIN overrides THEN overrides[k] ELSE defaults[k]]

\* The empty object literal {} as an options or configuration struct.
NoOptions == [k \in {} |-> TRUE]

\* if (options.name): an absent option is undefined, hence falsy.
Opt(options, name) == name \in DOMAIN options /\ options[name] = TRUE

RECURSIVE Pow10(_)
Pow10(p) == IF p = 0 THEN 1 ELSE 10 * Pow10(p - 1)

\* Math.round: the nearest integer, a tie going toward +Infinity. The argument
\* is the fraction num / den with den > 0.
MathRound(num, den) == (2 * num + den) \div (2 * den)

\* Math.round(value * Math.pow(10, p)) / Math.pow(10, p) on n thousandths,
\* for 0 <= p <= 3.
RoundTo(n, p) == MathRound(n * Pow10(p), Scale) * (Scale \div Pow10(p))

CircularMarker == <<"[", "C", "i", "r", "c", "u", "l", "a", "r", "]">>

RECURSIVE normalizeValue(_, _, _, _, _)
RECURSIVE normalizeItems(_, _, _, _, _)
RECURSIVE normalizeEntries(_, _, _, _, _, _, _)

\* value.map(item => normalizeValue(item, options, seen)).filter(defined)
normalizeItems(h, items, options, seen, d) ==
  IF items = <<>> THEN [v |-> Arr(<<>>), seen |-> seen]
  ELSE LET first == normalizeValue(h, Head(items), options, seen, d) IN
       IF IsThrow(first.v) THEN first
       ELSE LET rest == normalizeItems(h, Tail(items), options, first.seen, d) IN
            IF IsThrow(rest.v) THEN rest
            ELSE [v |-> Arr((IF first.v = Undefined THEN <<>> ELSE <<first.v>>)
                            \o rest.v.items),
                  seen |-> rest.seen]

\* The loop over the keys of an object, acc being the object built so far.
normalizeEntries(h, obj, keys, options, seen, d, acc) ==
  IF keys = <<>> THEN [v |-> Obj(acc), seen |-> seen]
  ELSE LET key == Head(keys)
           normalizedKey == IF Opt(options, "caseSensitive") THEN key ELSE toLowerCase(key)
           normalizedValue == normalizeValue(h, GetProp(obj, key), options, seen, d)
       IN IF IsThrow(normalizedValue.v) THEN normalizedValue
          ELSE normalizeEntries(h, obj, Tail(keys), options, normalizedValue.seen, d,
                                IF normalizedValue.v = Undefined THEN acc
                                ELSE SetProp(acc, normalizedKey, normalizedValue.v))

\* normalizeValue(value, options, seen) at call depth d: the normalized value
\* (or the exception raised) and the seen set as the call leaves it.
normalizeValue(h, value, options, seen, d) ==
  LET c == Deref(h, value) IN
  IF d > StackLimit THEN [v |-> RangeError, seen |-> seen]
  ELSE CASE c.t \in {"null", "undefined"} ->
              [v |-> IF Opt(options, "excludeNulls") THEN Undefined ELSE c, seen |-> seen]
         [] c.t = "string" ->
              IF Opt(options, "excludeEmptyStrings") /\ c.s = <<>>
              THEN [v |-> Undefined, seen |-> seen]
              ELSE LET trimmed == IF Opt(options, "trimStrings") THEN trim(c.s) ELSE c.s
                       cased == IF Opt(options, "caseSensitive") THEN trimmed
                                ELSE toLowerCase(trimmed)
                   IN [v |-> Str(cased), seen |-> seen]
         [] c.t = "number" ->
              [v |-> IF "precision" \in DOMAIN options /\ c.k = "finite"
                     THEN Num(RoundTo(c.n, options.precision)) ELSE c,
               seen |-> seen]
         [] c.t = "date" ->
              [v |-> IF Opt(options, "normalizeDates") THEN DateToISO(c) ELSE c,
               seen |-> seen]
         [] c.t = "array" -> normalizeItems(h, c.items, options, seen, d + 1)
         [] c.t = "object" ->
              IF value.t = "ref" /\ value.a \in seen
              THEN [v |-> Str(CircularMarker), seen |-> seen]
              ELSE LET seen1 == IF value.t = "ref" THEN seen \cup {value.a} ELSE seen
                       own == [i \in 1..Len(c.kv) |-> c.kv[i].k]
                       keys == IF Opt(options, "sortKeys") THEN sort(own) ELSE own
                   IN normalizeEntries(h, c, keys, options, seen1, d + 1, <<>>)
         [] OTHER -> [v |-> c, seen |-> seen]

RECURSIVE JSONStringify(_, _, _)
RECURSIVE JSONElements(_, _, _)
RECURSIVE JSONMembers(_, _, _)

\* The elements of an array under JSON.stringify: undefined and functions
\* are written as null.
JSONElements(h, items, d) ==
  IF items = <<>> THEN [t |-> "parts", parts |-> <<>>]
  ELSE LET first == JSONStringify(h, Head(items), d) IN
       IF IsThrow(first) THEN first
       ELSE LET rest == JSONElements(h, Tail(items), d) IN
            IF IsThrow(rest) THEN rest
            ELSE [t |-> "parts",
                  parts |-> <<IF first = Undefined THEN <<"n", "u", "l", "l">> ELSE first.s>>
                            \o rest.parts]

\* The members of an object under JSON.stringify, in insertion order: a member
\* whose value is undefined or a function is left out.
JSONMembers(h, kv, d) ==
  IF kv = <<>> THEN [t |-> "parts", parts |-> <<>>]
  ELSE LET first == JSONStringify(h, Head(kv).v, d) IN
       IF IsThrow(first) THEN first
       ELSE LET rest == JSONMembers(h, Tail(kv), d) IN
            IF IsThrow(rest) THEN rest
            ELSE [t |-> "parts",
                  parts |-> (IF first = Undefined THEN <<>>
                             ELSE <<canonicalizeString(Head(kv).k) \o <<":">> \o first.s>>)
                            \o rest.parts]

\* JSON.stringify(value): a string, undefined, or the exception raised.
JSONStringify(h, value, d) ==
  LET c == Deref(h, value) IN
  IF d > StackLimit THEN RangeError
  ELSE CASE c.t = "null" -> Str(<<"n", "u", "l", "l">>)
         [] c.t = "boolean" ->
              Str(IF c.b THEN <<"t", "r", "u", "e">> ELSE <<"f", "a", "l", "s", "e">>)
         [] c.t = "number" -> Str(canonicalizeNumber(c))
         [] c.t = "string" -> Str(canonicalizeString(c.s))
         [] c.t = "date" ->
              IF c.ms < 0 THEN Str(<<"n", "u", "l", "l">>)
              ELSE Str(canonicalizeString(toISOString(c.ms)))
         [] c.t = "array" ->
              LET elements == JSONElements(h, c.items, d + 1) IN
              IF IsThrow(elements) THEN elements
              ELSE Str(<<"[">> \o join(elements.parts) \o <<"]">>)
         [] c.t = "object" ->
              LET members == JSONMembers(h, c.kv, d + 1) IN
              IF IsThrow(members) THEN members
              ELSE Str(<<"{">> \o join(members.parts) \o <<"}">>)
         [] OTHER -> Undefined

\* createDeterministicString(obj, options): the string handed to the hash
\* (undefined when JSON.stringify yields none), or the exception raised.
createDeterministicString(h, obj, options) ==
  LET serialize(normalized) ==
        IF IsThrow(normalized) THEN normalized
        ELSE IF ~("useJCS" \in DOMAIN options /\ options.useJCS = FALSE)
        THEN toJCSString(h, normalized, 1)
        ELSE JSONStringify(h, normalized, 1)
  IN serialize(normalizeValue(h, obj, options, {}, 1).v)

(***************************************************************************)
(* Hashing                                                                 *)
(***************************************************************************)

DEFAULT_HASHING_CONFIG ==
  [algorithm |-> "sha256", secretKey |-> "", keyId |-> "default", generateKey |-> FALSE]

\* The digest functions of the crypto module, taken to be collision-free: a
\* digest is the triple of function, key and data that it was computed from.
createHash(algorithm, data) == [fn |-> algorithm, key |-> "", data |-> data]

createHmac(algorithm, key, data) == [fn |-> algorithm, key |-> key, data |-> data]

\* Whether createHashWithConfig replaces the secret key by a generated one.
\* A key generated whenever generateKey is set, a supplied key being replaced.
GeneratesKeyAlways(finalConfig) == finalConfig.generateKey

\* No key generated at all.
GeneratesKeyNever(finalConfig) == FALSE

GeneratesKey(finalConfig) == finalConfig.generateKey /\ finalConfig.secretKey = ""

\* createHashWithConfig(data, config), generated being the value that
\* generateSecretKey() returns if it is called.
createHashWithConfig(data, config, generated) ==
  LET merged == Spread(DEFAULT_HASHING_CONFIG, config)
      finalConfig == IF GeneratesKey(merged)
                     THEN [merged EXCEPT !.secretKey = generated] ELSE merged
      done(hash, algorithm) ==
        IF data.t # "string" THEN Throw("TypeError")
        ELSE [t |-> "digest", hash |-> hash, keyId |-> finalConfig.keyId,
              algorithm |-> algorithm]
  IN CASE finalConfig.algorithm = "sha256" ->
            done(createHash("sha256", data), "sha256")
       [] finalConfig.algorithm = "sha512" ->
            done(createHash("sha512", data), "sha512")
       [] finalConfig.algorithm = "hmac-sha256" ->
            IF finalConfig.secretKey = ""
            THEN Throw("Secret key is required for HMAC-SHA256")
            ELSE done(createHmac("sha256", finalConfig.secretKey, data), "hmac-sha256")
       [] finalConfig.algorithm = "hmac-sha512" ->
            IF finalConfig.secretKey = ""
            THEN Throw("Secret key is required for HMAC-SHA512")
            ELSE done(createHmac("sha512", finalConfig.secretKey, data), "hmac-sha512")
       [] OTHER -> Throw("Unsupported hashing algorithm")

\* A validation that takes a failed digest computation for a match.
validateHashLenient(data, expectedHash, config, generated) ==
  LET result == createHashWithConfig(data, config, generated) IN
  IsThrow(result) \/ result.hash = expectedHash

\* A validation that never finds a match.
validateHashNever(data, expectedHash, config, generated) == FALSE

\* validateHash(data, expectedHash, config)
validateHash(data, expectedHash, config, generated) ==
  LET result == createHashWithConfig(data, config, generated) IN
  IF IsThrow(result) THEN FALSE ELSE result.hash = expectedHash

(***************************************************************************)
(* Nested field access                                                     *)
(***************************************************************************)

IsDigit(c) == c \in {"0", "1", "2", "3", "4", "5", "6", "7", "8", "9"}

DigitValue(c) == Code(c) - Code("0")

RECURSIVE LeadingDigits(_)
LeadingDigits(s) ==
  IF s # <<>> /\ IsDigit(Head(s)) THEN <<Head(s)>> \o LeadingDigits(Tail(s)) ELSE <<>>

RECURSIVE DigitsValue(_)
DigitsValue(ds) ==
  IF ds = <<>> THEN 0 ELSE 10 * DigitsValue(SubSeq(ds, 1, Len(ds) - 1)) + DigitValue(ds[Len(ds)])

\* parseInt(s, 10): leading blanks and a sign are skipped, the longest digit
\* prefix is read, and the result is NaN when there is none.
parseInt(s) ==
  LET t0 == TrimStart(s)
      neg == t0 # <<>> /\ Head(t0) = "-"
      t1 == IF t0 # <<>> /\ Head(t0) = "-" THEN Tail(t0) ELSE t0
      ds == LeadingDigits(t1)
  IN IF ds = <<>> THEN NaN
     ELSE Num((IF neg THEN 0 - DigitsValue(ds) ELSE DigitsValue(ds)) * Scale)

RECURSIVE parsePathFrom(_, _, _, _, _)
parsePathFrom(path, i, result, current, inBrackets) ==
  IF i > Len(path)
  THEN IF current # <<>> THEN Append(result, Str(current)) ELSE result
  ELSE LET char == path[i]
           pushed == IF current # <<>> THEN Append(result, Str(current)) ELSE result
       IN CASE char = "[" -> parsePathFrom(path, i + 1, pushed, <<>>, TRUE)
            [] char = "]" ->
                 IF inBrackets
                 THEN parsePathFrom(path, i + 1, Append(result, parseInt(current)), <<>>, FALSE)
                 ELSE parsePathFrom(path, i + 1, result, current, inBrackets)
            [] char = "." -> parsePathFrom(path, i + 1, pushed, <<>>, inBrackets)
            [] OTHER -> parsePathFrom(path, i + 1, result, Append(current, char), inBrackets)

\* parsePath(path): the keys of a path, strings and numbers.
parsePath(path) == parsePathFrom(path, 1, <<>>, <<>>, FALSE)

\* if (value): the truthiness of a value.
Truthy(h, v) ==
  LET c == Deref(h, v) IN
  CASE c.t \in {"null", "undefined"} -> FALSE
    [] c.t = "boolean" -> c.b
    [] c.t = "number" -> c.k \in {"Infinity", "-Infinity"} \/ (c.k = "finite" /\ c.n # 0)
    [] c.t = "string" -> c.s # <<>>
    [] OTHER -> TRUE

\* The property key that a path key is converted to.
ToPropertyKey(key) ==
  IF key.t = "string" THEN key.s
  ELSE IF key.k = "NaN" THEN <<"N", "a", "N">>
  ELSE NumToString(key.n)

RECURSIVE walkPath(_, _, _)
walkPath(h, current, keys) ==
  IF keys = <<>> THEN current
  ELSE LET c == Deref(h, current)
           key == Head(keys)
       IN IF c.t \in {"null", "undefined"} THEN Undefined
          ELSE IF ~isObjectType(h, current) THEN Undefined
          ELSE IF c.t = "array"
          THEN IF key.t = "number" /\ key.k = "finite" /\ key.n >= 0
                  /\ key.n \div Scale < Len(c.items)
               THEN walkPath(h, c.items[(key.n \div Scale) + 1], Tail(keys))
               ELSE Undefined
          ELSE IF c.t = "object" /\ hasOwnProperty(c, ToPropertyKey(key))
          THEN walkPath(h, GetProp(c, ToPropertyKey(key)), Tail(keys))
          ELSE Undefined

\* getNestedValue(obj, path)
getNestedValue(h, obj, path) ==
  IF path = <<>> \/ ~Truthy(h, obj) THEN Undefined
  ELSE walkPath(h, obj, parsePath(path))

(***************************************************************************)
(* JSON.parse and JCS compliance                                           *)
(***************************************************************************)

SyntaxError == Throw("SyntaxError")

\* A parsed value and the position after its last character.
Parsed(v, i) == [t |-> "parsed", v |-> v, i |-> i]

\* The first position at or after i that holds no blank.
RECURSIVE SkipBlanks(_, _)
SkipBlanks(s, i) ==
  IF i <= Len(s) /\ s[i] = " " THEN SkipBlanks(s, i + 1) ELSE i

\* word stands in s at position i
StartsWith(s, i, word) ==
  i + Len(word) - 1 <= Len(s) /\ SubSeq(s, i, i + Len(word) - 1) = word

\* The characters of a JSON string after its opening quote; the escapes of the
\* grammar that denote a character of Alphabet are \" and \\.
RECURSIVE ParseChars(_, _, _)
ParseChars(s, i, chars) ==
  IF i > Len(s) THEN SyntaxError
  ELSE IF s[i] = "\"" THEN Parsed(Str(chars), i + 1)
  ELSE IF s[i] = "\\"
       THEN IF i + 1 <= Len(s) /\ s[i + 1] \in {"\"", "\\"}
            THEN ParseChars(s, i + 2, Append(chars, s[i + 1]))
            ELSE SyntaxError
  ELSE ParseChars(s, i + 1, Append(chars, s[i]))

\* The first position at or after i that holds no digit.
RECURSIVE DigitsEnd(_, _)
DigitsEnd(s, i) ==
  IF i <= Len(s) /\ IsDigit(s[i]) THEN DigitsEnd(s, i + 1) ELSE i

\* A JSON number at position i: an optional minus, an integer part without a
\* leading zero and an optional fraction, read to the thousandth.
ParseNumber(s, i) ==
  LET first == IF s[i] = "-" THEN i + 1 ELSE i
      dot == DigitsEnd(s, first)
      hasFraction == dot <= Len(s) /\ s[dot] = "."
      end == IF hasFraction THEN DigitsEnd(s, dot + 1) ELSE dot
      fraction == IF hasFraction
                  THEN DigitsValue(SubSeq(SubSeq(s, dot + 1, end - 1) \o <<"0", "0", "0">>, 1, 3))
                  ELSE 0
      magnitude == DigitsValue(SubSeq(s, first, dot - 1)) * Scale + fraction
  IN IF dot = first THEN SyntaxError
     ELSE IF dot - first > 1 /\ s[first] = "0" THEN SyntaxError
     ELSE IF hasFraction /\ end = dot + 1 THEN SyntaxError
     ELSE Parsed(Num(IF s[i] = "-" THEN 0 - magnitude ELSE magnitude), end)

RECURSIVE ParseValue(_, _)
RECURSIVE ParseElements(_, _, _)
RECURSIVE ParseMembers(_, _, _)

\* The elements of an array from position i on, up to its closing bracket.
ParseElements(s, i, items) ==
  LET after(element) ==
        IF IsThrow(element) THEN element
        ELSE IF SkipBlanks(s, element.i) > Len(s) THEN SyntaxError
        ELSE IF s[SkipBlanks(s, element.i)] = ","
             THEN ParseElements(s, SkipBlanks(s, element.i) + 1, Append(items, element.v))
        ELSE IF s[SkipBlanks(s, element.i)] = "]"
             THEN Parsed(Arr(Append(items, element.v)), SkipBlanks(s, element.i) + 1)
        ELSE SyntaxError
  IN after(ParseValue(s, i))

\* The members of an object from position i on, up to its closing brace; a
\* repeated key keeps its place and takes the later value.
ParseMembers(s, i, kv) ==
  LET afterValue(key, value) ==
        IF IsThrow(value) THEN value
        ELSE IF SkipBlanks(s, value.i) > Len(s) THEN SyntaxError
        ELSE IF s[SkipBlanks(s, value.i)] = ","
             THEN ParseMembers(s, SkipBlanks(s, value.i) + 1, SetProp(kv, key.v.s, value.v))
        ELSE IF s[SkipBlanks(s, value.i)] = "}"
             THEN Parsed(Obj(SetProp(kv, key.v.s, value.v)), SkipBlanks(s, value.i) + 1)
        ELSE SyntaxError
      afterKey(key) ==
        IF IsThrow(key) THEN key
        ELSE IF SkipBlanks(s, key.i) > Len(s) \/ s[SkipBlanks(s, key.i)] # ":" THEN SyntaxError
        ELSE afterValue(key, ParseValue(s, SkipBlanks(s, key.i) + 1))
  IN IF SkipBlanks(s, i) > Len(s) \/ s[SkipBlanks(s, i)] # "\"" THEN SyntaxError
     ELSE afterKey(ParseChars(s, SkipBlanks(s, i) + 1, <<>>))

\* The JSON value that starts at the first non-blank position from start on.
ParseValue(s, start) ==
  LET i == SkipBlanks(s, start) IN
  IF i > Len(s) THEN SyntaxError
  ELSE CASE s[i] = "n" ->
              IF StartsWith(s, i, <<"n", "u", "l", "l">>) THEN Parsed(Null, i + 4)
              ELSE SyntaxError
         [] s[i] = "t" ->
              IF StartsWith(s, i, <<"t", "r", "u", "e">>) THEN Parsed(Bool(TRUE), i + 4)
              ELSE SyntaxError
         [] s[i] = "f" ->
              IF StartsWith(s, i, <<"f", "a", "l", "s", "e">>) THEN Parsed(Bool(FALSE), i + 5)
              ELSE SyntaxError
         [] s[i] = "\"" -> ParseChars(s, i + 1, <<>>)
         [] s[i] = "-" \/ IsDigit(s[i]) -> ParseNumber(s, i)
         [] s[i] = "[" ->
              IF SkipBlanks(s, i + 1) <= Len(s) /\ s[SkipBlanks(s, i + 1)] = "]"
              THEN Parsed(Arr(<<>>), SkipBlanks(s, i + 1) + 1)
              ELSE ParseElements(s, i + 1, <<>>)
         [] s[i] = "{" ->
              IF SkipBlanks(s, i + 1) <= Len(s) /\ s[SkipBlanks(s, i + 1)] = "}"
              THEN Parsed(Obj(<<>>), SkipBlanks(s, i + 1) + 1)
              ELSE ParseMembers(s, i + 1, <<>>)
         [] OTHER -> SyntaxError

\* JSON.parse(str): the value, or the SyntaxError raised.
JSONParse(str) ==
  LET whole(parsed) ==
        IF IsThrow(parsed) THEN parsed
        ELSE IF SkipBlanks(str, parsed.i) = Len(str) + 1 THEN parsed.v
        ELSE SyntaxError
  IN whole(ParseValue(str, 1))

\* isJCSCompliant(str): str parses and toJCSString of the parsed value is str;
\* an exception of either step is caught and yields false.
isJCSCompliant(str) ==
  LET compliant(parsed) ==
        IF IsThrow(parsed) THEN FALSE
        ELSE Str(str) = toJCSString(<<>>, parsed, 1)
  IN compliant(JSONParse(str))

(***************************************************************************)
(* Field transformations                                                   *)
(***************************************************************************)

\* String.prototype.toUpperCase on one character.
UpperChar(c) ==
  CASE c = "a" -> "A"
    [] c = "b" -> "B"
    [] c = "c" -> "C"
    [] c = "j" -> "J"
    [] c = "t" -> "T"
    [] c = "z" -> "Z"
    [] OTHER -> c

toUpperCase(s) == [i \in 1..Len(s) |-> UpperChar(s[i])]

\* Whether the pattern from, read as a regular expression in which "." stands
\* for any character and every other character for itself, matches at the
\* head of s.
MatchesAt(s, from) ==
  /\ Len(s) >= Len(from)
  /\ \A i \in 1..Len(from) : from[i] = "." \/ from[i] = s[i]

\* value.replace(new RegExp(from, 'g'), to)
RECURSIVE replaceAll(_, _, _)
replaceAll(s, from, to) ==
  IF from = <<>>
  THEN IF s = <<>> THEN to ELSE to \o <<Head(s)>> \o replaceAll(Tail(s), from, to)
  ELSE IF s = <<>> THEN <<>>
  ELSE IF MatchesAt(s, from)
  THEN to \o replaceAll(SubSeq(s, Len(from) + 1, Len(s)), from, to)
  ELSE <<Head(s)>> \o replaceAll(Tail(s), from, to)

\* new Date(value).toISOString() on a string.
StringToISO(s) == IF DateParse(s) < 0 THEN RangeError ELSE Str(toISOString(DateParse(s)))

\* applyTransformation(payload, field, transformation): the transformed value,
\* or the exception raised. A transformation is a path string or a record
\* tagged by its operator.
applyTransformation(h, payload, field, transformation) ==
  LET tag == transformation.t IN
  CASE tag = "string" -> getNestedValue(h, payload, transformation.s)
    [] tag = "$date" ->
         LET value == getNestedValue(h, payload, transformation.path)
             c == Deref(h, value)
         IN IF c.t = "date" THEN DateToISO(c)
            ELSE IF c.t = "string" THEN StringToISO(c.s)
            ELSE value
    [] tag = "$round" ->
         LET value == getNestedValue(h, payload, field) IN
         IF value.t = "number" /\ value.k = "finite"
         THEN Num(RoundTo(value.n, transformation.p)) ELSE value
    [] tag = "$lower" ->
         LET value == getNestedValue(h, payload, transformation.path) IN
         IF value.t = "string" THEN Str(toLowerCase(value.s)) ELSE value
    [] tag = "$upper" ->
         LET value == getNestedValue(h, payload, transformation.path) IN
         IF value.t = "string" THEN Str(toUpperCase(value.s)) ELSE value
    [] tag = "$trim" ->
         LET value == getNestedValue(h, payload, transformation.path) IN
         IF value.t = "string" THEN Str(trim(value.s)) ELSE value
    [] tag = "$replace" ->
         LET value == getNestedValue(h, payload, field) IN
         IF value.t = "string"
         THEN Str(replaceAll(value.s, transformation.from, transformation.to)) ELSE value
    [] tag = "$if" ->
         IF Truthy(h, getNestedValue(h, payload, transformation.condition))
         THEN getNestedValue(h, payload, transformation.then)
         ELSE IF "else" \in DOMAIN transformation /\ transformation.else # <<>>
         THEN getNestedValue(h, payload, transformation.else)
         ELSE Undefined
    [] tag = "$exists" ->
         LET value == getNestedValue(h, payload, transformation.path) IN
         Bool(value.t \notin {"undefined", "null"})
    [] tag = "$default" ->
         LET value == getNestedValue(h, payload, field) IN
         IF value.t \notin {"undefined", "null"} THEN value ELSE transformation.value
    [] OTHER -> getNestedValue(h, payload, field)

\* config.name, or the default of the destructuring or parameter.
Field(config, name, default) == IF name \in DOMAIN config THEN config[name] ELSE default

\* A lookup that finds no transformation for any field.
HasTransformationNever(transformations, field) == FALSE

\* if (transformations[field]): a registered transformation that is not the
\* empty string.
HasTransformation(transformations, field) ==
  /\ field \in DOMAIN transformations
  /\ transformations[field] # Str(<<>>)

RECURSIVE extractLoop(_, _, _, _, _)
extractLoop(h, payload, fields, transformations, extracted) ==
  IF fields = <<>> THEN Obj(extracted)
  ELSE LET field == Head(fields)
           rest(value) ==
             IF IsThrow(value) THEN value
             ELSE extractLoop(h, payload, Tail(fields), transformations,
                              SetProp(extracted, field, value))
       IN rest(IF HasTransformation(transformations, field)
               THEN applyTransformation(h, payload, field, transformations[field])
               ELSE getNestedValue(h, payload, field))

\* An extraction that keeps the whole payload whatever the field list.
extractFieldsWhole(h, payload, config) == payload

\* extractFields(payload, config)
extractFields(h, payload, config) ==
  LET fields == Field(config, "fields", <<>>)
      transformations == Field(config, "transformations", NoOptions)
  IN IF Len(fields) = 0 THEN payload
     ELSE extractLoop(h, payload, fields, transformations, <<>>)

(***************************************************************************)
(* Strategies                                                              *)
(***************************************************************************)

\* The FingerprintResult a strategy returns.
FingerprintResult(hashResult, strategy, includedFields, warnings) ==
  Spread([t |-> "result", fingerprint |-> hashResult.hash, strategy |-> strategy,
          includedFields |-> includedFields, algorithm |-> hashResult.algorithm,
          warnings |-> warnings],
         IF hashResult.keyId # "" THEN [keyId |-> hashResult.keyId] ELSE NoOptions)

\* Object.keys(payload || {})
PayloadKeys(h, payload) == IF Truthy(h, payload) THEN ObjectKeys(h, payload) ELSE <<>>

\* createDeterministicString followed by createHashWithConfig, as every
\* strategy ends: the digest, or the exception raised.
HashOf(h, value, options, config, generated) ==
  LET hash(normalizedString) ==
        IF IsThrow(normalizedString) THEN normalizedString
        ELSE createHashWithConfig(normalizedString, Field(config, "hashing", NoOptions),
                                  generated)
  IN hash(createDeterministicString(h, value, options))

\* The strict defaults without the sorting of keys.
StrictDefaultsUnsorted ==
  [normalizeDates |-> TRUE, sortKeys |-> FALSE, excludeNulls |-> FALSE,
   trimStrings |-> TRUE, caseSensitive |-> FALSE]

StrictDefaults ==
  [normalizeDates |-> TRUE, sortKeys |-> TRUE, excludeNulls |-> FALSE,
   trimStrings |-> TRUE, caseSensitive |-> FALSE]

StrictOptions(config) == Spread(StrictDefaults, Field(config, "options", NoOptions))

\* strictStrategy(payload, config)
strictStrategy(h, payload, config, generated) ==
  LET result(hashResult) ==
        IF IsThrow(hashResult) THEN hashResult
        ELSE FingerprintResult(hashResult, "strict", PayloadKeys(h, payload), <<>>)
  IN result(HashOf(h, payload, StrictOptions(config), config, generated))

SelectiveDefaults ==
  [normalizeDates |-> TRUE, sortKeys |-> TRUE, excludeNulls |-> TRUE,
   trimStrings |-> TRUE, caseSensitive |-> FALSE]

SelectiveOptions(config) == Spread(SelectiveDefaults, Field(config, "options", NoOptions))

\* A check of the field list that misses the empty list.
MissingFieldsAbsentOnly(config) == "fields" \notin DOMAIN config

\* !config.fields || config.fields.length === 0
MissingFields(config) == "fields" \notin DOMAIN config \/ Len(config.fields) = 0

\* selectiveStrategy(payload, config)
selectiveStrategy(h, payload, config, generated) ==
  IF MissingFields(config) THEN Throw("Selective strategy requires fields to be specified")
  ELSE LET result(hashResult) ==
             IF IsThrow(hashResult) THEN hashResult
             ELSE FingerprintResult(hashResult, "selective", config.fields, <<>>)
           hashed(extracted) ==
             IF IsThrow(extracted) THEN extracted
             ELSE result(HashOf(h, extracted, SelectiveOptions(config), config, generated))
       IN hashed(extractFields(h, payload, config))

\* isISODateString(str)
isISODateString(s) == DateParse(s) >= 0 /\ includes(s, <<"T">>) /\ includes(s, <<"Z">>)

RECURSIVE preprocessDates(_, _, _)
RECURSIVE preprocessItems(_, _, _)
RECURSIVE preprocessEntries(_, _, _, _)

\* obj.map(preprocessDates)
preprocessItems(h, items, d) ==
  IF items = <<>> THEN Arr(<<>>)
  ELSE LET first == preprocessDates(h, Head(items), d) IN
       IF IsThrow(first) THEN first
       ELSE LET rest == preprocessItems(h, Tail(items), d) IN
            IF IsThrow(rest) THEN rest ELSE Arr(<<first>> \o rest.items)

\* The loop over Object.entries(obj), processed being the object built so far.
preprocessEntries(h, kv, d, processed) ==
  IF kv = <<>> THEN Obj(processed)
  ELSE LET value == preprocessDates(h, Head(kv).v, d) IN
       IF IsThrow(value) THEN value
       ELSE preprocessEntries(h, Tail(kv), d, SetProp(processed, Head(kv).k, value))

\* A date-typed value taken for a plain object: it has no own entries.
PreprocessDateAsObject(date) == Obj(<<>>)

\* The result of preprocessDates on a date-typed value.
PreprocessDate(date) == DateToISO(date)

\* preprocessDates(obj) at call depth d.
preprocessDates(h, obj, d) ==
  LET c == Deref(h, obj) IN
  IF d > StackLimit THEN RangeError
  ELSE CASE c.t \in {"null", "undefined"} -> c
         [] c.t = "date" -> PreprocessDate(c)
         [] c.t = "string" ->
              IF isISODateString(c.s) THEN Str(toISOString(DateParse(c.s))) ELSE c
         [] c.t = "array" -> preprocessItems(h, c.items, d + 1)
         [] c.t = "object" -> preprocessEntries(h, c.kv, d + 1, <<>>)
         [] OTHER -> c

SemanticDefaults ==
  [normalizeDates |-> TRUE, sortKeys |-> TRUE, excludeNulls |-> TRUE,
   excludeEmptyStrings |-> TRUE, trimStrings |-> TRUE, caseSensitive |-> FALSE,
   precision |-> 2]

\* Semantic options that leave the caller's options out.
SemanticOptionsDefaultsOnly(config) == SemanticDefaults

SemanticOptions(config) == Spread(SemanticDefaults, Field(config, "options", NoOptions))

\* keys.filter(key => the lower-cased key includes 'timestamp', 'time' or 'date')
RECURSIVE timestampFields(_)
timestampFields(keys) ==
  IF keys = <<>> THEN <<>>
  ELSE LET lower == toLowerCase(Head(keys))
           hit == \/ includes(lower, <<"t", "i", "m", "e", "s", "t", "a", "m", "p">>)
                  \/ includes(lower, <<"t", "i", "m", "e">>)
                  \/ includes(lower, <<"d", "a", "t", "e">>)
       IN (IF hit THEN <<Head(keys)>> ELSE <<>>) \o timestampFields(Tail(keys))

\* A semantic strategy that never warns.
semanticWarningsNone(h, payload) == <<>>

\* The warnings of the semantic strategy.
semanticWarnings(h, payload) ==
  IF Deref(h, payload).t \in {"object", "array", "date"}
  THEN LET keys == ObjectKeys(h, payload) IN
       (IF Len(keys) = 0 THEN <<[w |-> "Empty object", fields |-> <<>>]>> ELSE <<>>)
       \o (IF Len(timestampFields(keys)) > 0
           THEN <<[w |-> "Timestamp fields detected", fields |-> timestampFields(keys)]>>
           ELSE <<>>)
  ELSE <<>>

\* semanticStrategy(payload, config)
semanticStrategy(h, payload, config, generated) ==
  LET result(hashResult) ==
        IF IsThrow(hashResult) THEN hashResult
        ELSE FingerprintResult(hashResult, "semantic", PayloadKeys(h, payload),
                               semanticWarnings(h, payload))
      hashed(preprocessedPayload) ==
        IF IsThrow(preprocessedPayload) THEN preprocessedPayload
        ELSE result(HashOf(h, preprocessedPayload, SemanticOptions(config), config,
                           generated))
  IN hashed(preprocessDates(h, payload, 1))

CustomDefaults ==
  [normalizeDates |-> TRUE, sortKeys |-> TRUE, excludeNulls |-> TRUE,
   trimStrings |-> TRUE, caseSensitive |-> FALSE]

CustomOptions(config) == Spread(CustomDefaults, Field(config, "options", NoOptions))

\* customStrategy(payload, config)
customStrategy(h, payload, config, generated) ==
  IF MissingFields(config) THEN Throw("Custom strategy requires fields to be specified")
  ELSE LET result(hashResult) ==
             IF IsThrow(hashResult) THEN hashResult
             ELSE FingerprintResult(hashResult, "custom", config.fields, <<>>)
           hashed(extracted) ==
             IF IsThrow(extracted) THEN extracted
             ELSE result(HashOf(h, extracted, CustomOptions(config), config, generated))
       IN hashed(extractFields(h, payload, config))

(***************************************************************************)
(* Idempofy                                                                *)
(***************************************************************************)

\* A dispatch that takes every strategy name for strict.
ThisAlwaysStrict(h, payload, config, generated) ==
  strictStrategy(h, payload, config, generated)

\* Idempofy.this(payload, config): config.strategy || 'strict' takes an absent
\* and an empty strategy name alike for strict.
This(h, payload, config, generated) ==
  LET strategy == IF Field(config, "strategy", "") = "" THEN "strict"
                  ELSE config.strategy
  IN
  CASE strategy = "strict" -> strictStrategy(h, payload, config, generated)
    [] strategy = "selective" -> selectiveStrategy(h, payload, config, generated)
    [] strategy = "semantic" -> semanticStrategy(h, payload, config, generated)
    [] strategy = "custom" -> customStrategy(h, payload, config, generated)
    [] OTHER -> Throw("Unknown strategy")

\* Idempofy.compare(payload1, payload2, config): the two calls draw their
\* generated keys separately.
Compare(h, payload1, payload2, config, generated1, generated2) ==
  LET equal(result1, result2) ==
        IF IsThrow(result2) THEN result2
        ELSE Bool(result1.fingerprint = result2.fingerprint)
      second(result1) ==
        IF IsThrow(result1) THEN result1
        ELSE equal(result1, This(h, payload2, config, generated2))
  IN second(This(h, payload1, config, generated1))

(***************************************************************************)
(* The values, payloads and configurations that the callers pass           *)
(***************************************************************************)

\* The largest whole number among the number leaves.
MaxNum == 2

ka == <<"a">>
kb == <<"b">>
kA == <<"A">>

NumLeaves == {Num(i * Scale) : i \in 1..MaxNum}

\* The plain objects with the keys a and b, in either insertion order, the
\* value of a drawn from VA and that of b from VB.
ObjectsOver(VA, VB) ==
  {Obj(<<>>)}
  \cup {Obj(<<KV(ka, x)>>) : x \in VA}
  \cup {Obj(<<KV(kb, y)>>) : y \in VB}
  \cup {Obj(<<KV(ka, x), KV(kb, y)>>) : x \in VA, y \in VB}
  \cup {Obj(<<KV(kb, y), KV(ka, x)>>) : x \in VA, y \in VB}

None == [t |-> "none"]

NoHeap == <<>>

\* The keys that generateSecretKey() can return: random bytes, two of them here.
GeneratedKeys == {"generated-1", "generated-2"}

\* The keys that one createHashWithConfig(data, hashing) call can draw: a
\* generated key where the call reaches generateSecretKey(), none elsewhere.
KeysDrawn(hashing) ==
  IF GeneratesKey(Spread(DEFAULT_HASHING_CONFIG, hashing)) THEN GeneratedKeys ELSE {""}

\* The keys that one Idempofy.this(payload, config) call can draw.
KeysDrawnBy(config) == KeysDrawn(Field(config, "hashing", NoOptions))

(***************************************************************************)
(* Canonicalization of a pair of values                                    *)
(***************************************************************************)

CanonLeaves == {Num(Scale), Str(<<"J">>), Null, Bool(TRUE)}

CanonInner == ObjectsOver({Num(Scale), Str(<<"J">>)}, NumLeaves)

CanonValues ==
  CanonLeaves
  \cup ObjectsOver(CanonLeaves \cup CanonInner, {Num(2 * Scale)})
  \cup {Arr(<<x>>) : x \in CanonInner}
  \cup {Arr(<<x, y>>) : x \in {Num(Scale), Str(<<"J">>)}, y \in {Num(Scale), Null}}

InitCanon ==
  /\ heap = NoHeap
  /\ in1 \in CanonValues
  /\ in2 \in CanonValues
  /\ cfg = NoOptions
  /\ out1 = None
  /\ out2 = None
  /\ cmp = None

\* canonicalize(in1)
Canonicalize1 ==
  /\ out1 = None
  /\ out1' = canonicalize(heap, in1, 1)
  /\ UNCHANGED <<heap, in1, in2, cfg, out2, cmp>>

\* canonicalize(in2)
Canonicalize2 ==
  /\ out2 = None
  /\ out2' = canonicalize(heap, in2, 1)
  /\ UNCHANGED <<heap, in1, in2, cfg, out1, cmp>>

NextCanon == Canonicalize1 \/ Canonicalize2

SpecCanon == InitCanon /\ [][NextCanon]_vars

(***************************************************************************)
(* Canonical strings and their compliance                                  *)
(***************************************************************************)

\* The values that are no finite JSON value.
NonJSONLeaves == {NaN, Infinity, NegInfinity, Undefined, Func, SymbolV}

JCSLeaves ==
  NonJSONLeaves
  \cup {Null, Bool(TRUE), Bool(FALSE), DateV(0), Num(0), Num(Scale \div 2),
        Num(0 - (3 * Scale) \div 2)}
  \cup NumLeaves
  \cup {Str(<<>>), Str(<<"J">>), Str(<<"\"">>), Str(<<"a", "\\", " ", "b">>)}

JCSValues ==
  JCSLeaves
  \cup {Arr(<<>>)}
  \cup {Arr(<<x>>) : x \in JCSLeaves}
  \cup {Arr(<<x, y>>) : x \in JCSLeaves, y \in JCSLeaves}
  \cup ObjectsOver(JCSLeaves, JCSLeaves)
  \cup {Obj(<<KV(kb, Arr(<<x, Obj(<<KV(kA, y)>>)>>)), KV(ka, Obj(<<KV(<<"\"">>, x)>>))>>) :
          x \in NonJSONLeaves \cup {Str(<<"\"">>)}, y \in NonJSONLeaves \cup {Num(Scale)}}

\* Strings handed to isJCSCompliant as they are: canonical ones, and ones with
\* a blank, keys out of order, a repeated key, a padded number, a syntax error.
JCSCandidates ==
  { <<"{", "\"", "a", "\"", ":", "1", ",", "\"", "b", "\"", ":", "2", "}">>,
    <<"[", "1", ",", "2", ",", "1", "]">>,
    <<"\"", "J", "\"">>,
    <<"1", "2">>,
    <<"{", "\"", "a", "\"", ":", " ", "1", "}">>,
    <<"{", "\"", "b", "\"", ":", "2", ",", "\"", "a", "\"", ":", "1", "}">>,
    <<"{", "\"", "a", "\"", ":", "1", ",", "\"", "a", "\"", ":", "2", "}">>,
    <<"1", ".", "0">>,
    <<"0", "1">>,
    <<"i", "n", "a", "l", "i", "d">> }

InitJCS ==
  /\ heap = NoHeap
  /\ in1 \in JCSValues
  /\ in2 \in {Str(s) : s \in JCSCandidates}
  /\ cfg = NoOptions
  /\ out1 = None
  /\ out2 = None
  /\ cmp = None

\* out1 = toJCSString(in1)
ToJCSString ==
  /\ out1 = None
  /\ out1' = toJCSString(heap, in1, 1)
  /\ UNCHANGED <<heap, in1, in2, cfg, out2, cmp>>

\* isJCSCompliant(toJCSString(in1))
CompliantOutput ==
  /\ out1 # None
  /\ ~IsThrow(out1)
  /\ cmp = None
  /\ cmp' = Bool(isJCSCompliant(out1.s))
  /\ UNCHANGED <<heap, in1, in2, cfg, out1, out2>>

\* isJCSCompliant(in2)
CompliantCandidate ==
  /\ out2 = None
  /\ out2' = Bool(isJCSCompliant(in2.s))
  /\ UNCHANGED <<heap, in1, in2, cfg, out1, cmp>>

NextJCS == ToJCSString \/ CompliantOutput \/ CompliantCandidate

SpecJCS == InitJCS /\ [][NextJCS]_vars

(***************************************************************************)
(* Fingerprinting and comparing a pair of payloads                         *)
(***************************************************************************)

ISO0 == Str(toISOString(0))

\* The plain objects with the keys k1 and k2, in either insertion order.
ObjectsWithKeys(k1, k2, V1, V2) ==
  {Obj(<<KV(k1, x)>>) : x \in V1}
  \cup {Obj(<<KV(k1, x), KV(k2, y)>>) : x \in V1, y \in V2}
  \cup {Obj(<<KV(k2, y), KV(k1, x)>>) : x \in V1, y \in V2}

PayloadLeaves == NumLeaves \cup {Str(<<"J">>), Str(<<"j">>), DateV(0), ISO0}

PayloadInner ==
  {Obj(<<KV(ka, x)>>) : x \in {DateV(0), ISO0}}
  \cup {Obj(<<KV(ka, Num(Scale)), KV(kb, Num(2 * Scale))>>),
        Obj(<<KV(kb, Num(2 * Scale)), KV(ka, Num(Scale))>>)}
  \cup {Arr(<<x>>) : x \in {DateV(0), ISO0}}

\* The payloads that are fingerprinted whole.
Payloads ==
  ObjectsOver(PayloadLeaves \cup PayloadInner, {Num(2 * Scale)})
  \cup ObjectsWithKeys(kA, ka, {Num(Scale)}, NumLeaves)

\* The configurations of the strategies that fingerprint the whole payload.
WholeConfigs == {NoOptions, [strategy |-> "strict"], [strategy |-> "semantic"]}

Init ==
  /\ heap = NoHeap
  /\ in1 \in Payloads
  /\ in2 \in Payloads
  /\ cfg \in WholeConfigs
  /\ out1 = None
  /\ out2 = None
  /\ cmp = None

\* Idempofy.this(in1, cfg)
Fingerprint1 ==
  /\ \E generated \in KeysDrawnBy(cfg) : out1' = This(heap, in1, cfg, generated)
  /\ UNCHANGED <<heap, in1, in2, cfg, out2, cmp>>

\* Idempofy.this(in2, cfg)
Fingerprint2 ==
  /\ \E generated \in KeysDrawnBy(cfg) : out2' = This(heap, in2, cfg, generated)
  /\ UNCHANGED <<heap, in1, in2, cfg, out1, cmp>>

\* Idempofy.compare(in1, in2, cfg)
CompareBoth ==
  /\ \E generated1, generated2 \in KeysDrawnBy(cfg) :
       cmp' = Compare(heap, in1, in2, cfg, generated1, generated2)
  /\ UNCHANGED <<heap, in1, in2, cfg, out1, out2>>

Next == Fingerprint1 \/ Fingerprint2 \/ CompareBoth

Spec == Init /\ [][Next]_vars

(***************************************************************************)
(* The selective strategy on a pair of payloads                            *)
(***************************************************************************)

SelectiveLeaves == {Num(Scale), Str(<<"J">>), Str(<<"j">>), Null}

SelectiveInner ==
  {Obj(<<KV(ka, x)>>) : x \in {Num(Scale), Str(<<"J">>), Str(<<"j">>)}}
  \cup {Arr(<<x>>) : x \in {Num(Scale), Str(<<"J">>)}}

SelectivePayloads ==
  {Obj(<<>>)}
  \cup {Obj(<<KV(ka, x)>>) : x \in SelectiveLeaves \cup SelectiveInner}
  \cup {Obj(<<KV(kb, y)>>) : y \in NumLeaves}
  \cup {Obj(<<KV(ka, x), KV(kb, y)>>) : x \in SelectiveLeaves \cup SelectiveInner,
                                        y \in NumLeaves}

\* The field lists: a, b, a.a, a[0] and two of them together.
FieldLists ==
  { <<ka>>, <<kb>>, <<ka, kb>>, << <<"a", ".", "a">> >>, << <<"a", "[", "0", "]">> >>,
    << <<"a", ".", "a">>, kb >> }

SelectiveConfigs == {[strategy |-> "selective", fields |-> F] : F \in FieldLists}

InitSelective ==
  /\ heap = NoHeap
  /\ in1 \in SelectivePayloads
  /\ in2 \in SelectivePayloads
  /\ cfg \in SelectiveConfigs
  /\ out1 = None
  /\ out2 = None
  /\ cmp = None

SpecSelective == InitSelective /\ [][Next]_vars

(***************************************************************************)
(* Repeated fingerprinting under every kind of configuration               *)
(***************************************************************************)

ConfigPayloads ==
  {Obj(<<>>), Obj(<<KV(ka, Num(Scale))>>), Obj(<<KV(ka, DateV(0))>>),
   Obj(<<KV(ka, Str(<<"J">>)), KV(kb, Num(2 * Scale))>>)}

StrategyParts ==
  {NoOptions} \cup {[strategy |-> x] : x \in {"strict", "selective", "semantic", "custom",
                                              "fuzzy", ""}}

FieldParts == {NoOptions, [fields |-> <<>>], [fields |-> <<ka>>]}

HashingParts ==
  {NoOptions,
   [hashing |-> [algorithm |-> "sha512"]],
   [hashing |-> [algorithm |-> "sha256", generateKey |-> TRUE]],
   [hashing |-> [algorithm |-> "hmac-sha256"]],
   [hashing |-> [algorithm |-> "hmac-sha256", secretKey |-> "key-1"]],
   [hashing |-> [algorithm |-> "hmac-sha256", generateKey |-> TRUE]],
   [hashing |-> [algorithm |-> "hmac-sha512", secretKey |-> "key-1", generateKey |-> TRUE]]}

OptionParts == {NoOptions, [options |-> [useJCS |-> FALSE]]}

\* The configuration objects, each part present or left out.
Configs ==
  {Spread(Spread(s, f), Spread(hp, o)) :
     s \in StrategyParts, f \in FieldParts, hp \in HashingParts, o \in OptionParts}

InitConfig ==
  /\ heap = NoHeap
  /\ in1 \in ConfigPayloads
  /\ in2 \in {in1, Obj(<<>>)}
  /\ cfg \in Configs
  /\ out1 = None
  /\ out2 = None
  /\ cmp = None

SpecConfig == InitConfig /\ [][Next]_vars

(***************************************************************************)
(* Payloads whose value graph lies in a heap and may hold cycles           *)
(***************************************************************************)

HeapSize == 2

\* What a container of the heap holds: a number or a reference to a cell.
CellChildren == {Num(Scale)} \cup {Ref(a) : a \in 1..HeapSize}

\* The containers of the heap: an object or an array holding one child, or an
\* object holding the same child twice.
Cells ==
  {Obj(<<KV(ka, c)>>) : c \in CellChildren}
  \cup {Obj(<<KV(ka, c), KV(kb, c)>>) : c \in CellChildren}
  \cup {Arr(<<c>>) : c \in CellChildren}

StrategyConfigs ==
  {[strategy |-> "strict"], [strategy |-> "semantic"],
   [strategy |-> "selective", fields |-> <<ka>>],
   [strategy |-> "custom", fields |-> <<ka>>]}

InitCyclic ==
  /\ heap \in [1..HeapSize -> Cells]
  /\ in1 = Ref(1)
  /\ in2 = Ref(1)
  /\ cfg \in StrategyConfigs
  /\ out1 = None
  /\ out2 = None
  /\ cmp = None

SpecCyclic == InitCyclic /\ [][Next]_vars

(***************************************************************************)
(* Normalization of payloads whose containers are shared or cyclic         *)
(***************************************************************************)

NormalizeOptions == {NoOptions, StrictDefaults, SemanticDefaults}

InitNormalize ==
  /\ heap \in [1..HeapSize -> Cells]
  /\ in1 = Ref(1)
  /\ in2 = Ref(1)
  /\ cfg \in NormalizeOptions
  /\ out1 = None
  /\ out2 = None
  /\ cmp = None

\* normalizeValue(in1, cfg)
Normalize ==
  /\ out1 = None
  /\ out1' = normalizeValue(heap, in1, cfg, {}, 1).v
  /\ UNCHANGED <<heap, in1, in2, cfg, out2, cmp>>

\* createDeterministicString(in2, cfg)
DeterministicString ==
  /\ out2 = None
  /\ out2' = createDeterministicString(heap, in2, cfg)
  /\ UNCHANGED <<heap, in1, in2, cfg, out1, cmp>>

NextNormalize == Normalize \/ DeterministicString

SpecNormalize == InitNormalize /\ [][NextNormalize]_vars

(***************************************************************************)
(* Nested values read by path                                              *)
(***************************************************************************)

NestedLeaves == {Num(Scale), Str(<<"J">>), Null}

\* What the key a of a payload holds: a leaf, an array, an object with the
\* key b or with the key "0", an array of objects.
NestedInner ==
  NestedLeaves
  \cup {Arr(<<x, Num(2 * Scale)>>) : x \in NestedLeaves}
  \cup {Obj(<<KV(kb, x)>>) : x \in NestedLeaves}
  \cup {Obj(<<KV(<<"0">>, x)>>) : x \in NestedLeaves}
  \cup {Arr(<<Obj(<<KV(kb, x)>>)>>) : x \in NestedLeaves}

NestedPayloads ==
  {Null, Obj(<<>>), Arr(<<Num(Scale)>>)}
  \cup {Obj(<<KV(ka, x)>>) : x \in NestedInner}

NestedPaths ==
  { <<"a">>, <<"b">>, <<"a", ".", "b">>, <<"a", ".", "0">>,
    <<"a", "[", "0", "]">>, <<"a", "[", "1", "]">>, <<"a", "[", "2", "]">>,
    <<"a", "[", "-", "1", "]">>, <<"a", "[", "b", "]">>,
    <<"a", "[", "0", "]", ".", "b">>, <<"a", ".", "b", ".", "a">>,
    <<"[", "0", "]">>, <<>>,
    <<"a", "[">>, <<"a", "]">>, <<"a", "[", "]">>, <<"a", "[", "0">>,
    <<"a", ".", ".", "b">>, <<"a", "[", "1", "b", "]">> }

InitNested ==
  /\ heap = NoHeap
  /\ in1 \in NestedPayloads
  /\ in2 \in {Str(path) : path \in NestedPaths}
  /\ cfg = NoOptions
  /\ out1 = None
  /\ out2 = None
  /\ cmp = None

\* getNestedValue(in1, in2)
GetNestedValue ==
  /\ out1 = None
  /\ out1' = getNestedValue(heap, in1, in2.s)
  /\ UNCHANGED <<heap, in1, in2, cfg, out2, cmp>>

\* parsePath(in2): the array of keys
ParsePath ==
  /\ out2 = None
  /\ out2' = Arr(parsePath(in2.s))
  /\ UNCHANGED <<heap, in1, in2, cfg, out1, cmp>>

NextNested == GetNestedValue \/ ParsePath

SpecNested == InitNested /\ [][NextNested]_vars

(***************************************************************************)
(* Digests under every kind of hashing configuration                       *)
(***************************************************************************)

HashData == {Str(<<>>), Str(<<"a">>), Str(<<"{", "}">>)}

AlgorithmParts ==
  {NoOptions} \cup {[algorithm |-> x] : x \in {"sha256", "sha512", "hmac-sha256",
                                               "hmac-sha512", "md5"}}

SecretKeyParts == {NoOptions, [secretKey |-> ""], [secretKey |-> "key-1"],
                   [secretKey |-> "key-2"]}

GenerateKeyParts == {NoOptions, [generateKey |-> FALSE], [generateKey |-> TRUE]}

HashingConfigs ==
  {Spread(a, Spread(k, g)) : a \in AlgorithmParts, k \in SecretKeyParts,
                             g \in GenerateKeyParts}

InitHash ==
  /\ heap = NoHeap
  /\ in1 \in HashData
  /\ in2 \in HashData
  /\ cfg \in HashingConfigs
  /\ out1 = None
  /\ out2 = None
  /\ cmp = None

\* createHashWithConfig(in1, cfg)
Digest ==
  /\ \E generated \in KeysDrawn(cfg) : out1' = createHashWithConfig(in1, cfg, generated)
  /\ UNCHANGED <<heap, in1, in2, cfg, out2, cmp>>

\* The hashes a caller hands to validateHash: the one that the last
\* createHashWithConfig(in1, cfg) returned, or the SHA-256 digest of "".
ExpectedHashes ==
  {createHash("sha256", Str(<<>>))}
  \cup (IF out1 # None /\ ~IsThrow(out1) THEN {out1.hash} ELSE {})

\* validateHash(in2, expectedHash, cfg): out2 keeps the hash that was handed in.
Validate ==
  /\ \E expectedHash \in ExpectedHashes, generated \in KeysDrawn(cfg) :
       /\ out2' = expectedHash
       /\ cmp' = Bool(validateHash(in2, expectedHash, cfg, generated))
  /\ UNCHANGED <<heap, in1, in2, cfg, out1>>

NextHash == Digest \/ Validate

SpecHash == InitHash /\ [][NextHash]_vars

(***************************************************************************)
(* The custom strategy and the selective strategy on transformed values    *)
(***************************************************************************)

CustomLeaves ==
  {Str(<<"J">>), Str(<<" ", "j", "a">>), Str(ISONoMillis), Num((3 * Scale) \div 2), Null}

CustomPayloads ==
  {Obj(<<>>)}
  \cup {Obj(<<KV(ka, x)>>) : x \in CustomLeaves}
  \cup {Obj(<<KV(kb, y)>>) : y \in CustomLeaves}
  \cup {Obj(<<KV(ka, x), KV(kb, y)>>) : x \in CustomLeaves, y \in CustomLeaves}

\* The transformations registered for the field a: a path string and one of
\* each operator.
TransformationsOfA ==
  { Str(kb),
    [t |-> "$date", path |-> ka],
    [t |-> "$round", p |-> 0],
    [t |-> "$lower", path |-> ka],
    [t |-> "$upper", path |-> kb],
    [t |-> "$trim", path |-> ka],
    [t |-> "$replace", from |-> <<"j">>, to |-> <<"J">>],
    [t |-> "$if", condition |-> kb, then |-> ka, else |-> kb],
    [t |-> "$exists", path |-> kb],
    [t |-> "$default", value |-> Num(Scale)] }

TransformationsOfB ==
  { [t |-> "$upper", path |-> kb], [t |-> "$date", path |-> kb] }

TransformationParts ==
  {NoOptions}
  \cup {ka :> x : x \in TransformationsOfA}
  \cup {kb :> y : y \in TransformationsOfB}
  \cup {(ka :> x) @@ (kb :> y) : x \in TransformationsOfA, y \in TransformationsOfB}

CustomFieldLists == { <<ka>>, <<kb>>, <<ka, kb>>, <<kb, ka>> }

CustomOptionParts ==
  {NoOptions, [options |-> [caseSensitive |-> TRUE, trimStrings |-> FALSE]]}

CustomConfigs ==
  {Spread([strategy |-> "custom", fields |-> F, transformations |-> T], O) :
     F \in CustomFieldLists, T \in TransformationParts, O \in CustomOptionParts}

InitCustom ==
  /\ heap = NoHeap
  /\ in1 \in CustomPayloads
  /\ in2 = in1
  /\ cfg \in CustomConfigs
  /\ out1 = None
  /\ out2 = None
  /\ cmp = None

\* The payload that maps every listed field to its transformed value, or to
\* the payload's own value where no transformation is registered for it; the
\* exception where a transformation raises one.
RECURSIVE TransformedPayload(_, _, _, _, _)
TransformedPayload(h, payload, fields, transformations, kv) ==
  IF fields = <<>> THEN Obj(kv)
  ELSE LET with(value) ==
             IF IsThrow(value) THEN value
             ELSE TransformedPayload(h, payload, Tail(fields), transformations,
                                     SetProp(kv, Head(fields), value))
       IN with(IF Head(fields) \in DOMAIN transformations
               THEN applyTransformation(h, payload, Head(fields),
                                        transformations[Head(fields)])
               ELSE GetProp(payload, Head(fields)))

\* The configuration of the selective call: the same fields and options, no
\* transformations.
SelectiveOf(config) ==
  Spread([strategy |-> "selective", fields |-> config.fields],
         IF "options" \in DOMAIN config THEN [options |-> config.options] ELSE NoOptions)

\* Idempofy.this(in1, cfg) under the custom strategy
Custom ==
  /\ out1 = None
  /\ \E generated \in KeysDrawnBy(cfg) : out1' = customStrategy(heap, in1, cfg, generated)
  /\ UNCHANGED <<heap, in1, in2, cfg, out2, cmp>>

\* Idempofy.this(P', {strategy: 'selective', fields, options}) on the payload
\* P' of the transformed values of in2.
SelectiveTransformed ==
  /\ out2 = None
  /\ LET selective(transformed) ==
           IF IsThrow(transformed) THEN transformed
           ELSE selectiveStrategy(heap, transformed, SelectiveOf(cfg), "")
     IN out2' = selective(TransformedPayload(heap, in2, cfg.fields, cfg.transformations, <<>>))
  /\ UNCHANGED <<heap, in1, in2, cfg, out1, cmp>>

NextCustom == Custom \/ SelectiveTransformed

SpecCustom == InitCustom /\ [][NextCustom]_vars

(***************************************************************************)
(* The strategies under the options that the caller supplies               *)
(***************************************************************************)

OptionLeaves ==
  {Null, Str(<<>>), Str(<<" ", "J">>), Num((9 * Scale) \div 8), DateV(0)}

OptionPayloads ==
  ObjectsOver(OptionLeaves, OptionLeaves)
  \cup {Obj(<<KV(ka, Arr(<<x, Num(Scale)>>))>>) : x \in OptionLeaves}

\* The options objects of the callers: none, one option set either way, two
\* options at once.
CallerOptions ==
  {NoOptions}
  \cup {[excludeNulls |-> b] : b \in BOOLEAN}
  \cup {[excludeEmptyStrings |-> b] : b \in BOOLEAN}
  \cup {[caseSensitive |-> b] : b \in BOOLEAN}
  \cup {[trimStrings |-> b] : b \in BOOLEAN}
  \cup {[precision |-> p] : p \in {0, 1}}
  \cup {[excludeNulls |-> FALSE, precision |-> 0],
        [excludeEmptyStrings |-> FALSE, caseSensitive |-> TRUE]}

OptionStrategies ==
  {[strategy |-> "strict"], [strategy |-> "semantic"],
   [strategy |-> "selective", fields |-> <<ka, kb>>],
   [strategy |-> "custom", fields |-> <<ka, kb>>]}

OptionConfigs ==
  OptionStrategies
  \cup {Spread(s, [options |-> o]) : s \in OptionStrategies, o \in CallerOptions}

InitOptions ==
  /\ heap = NoHeap
  /\ in1 \in OptionPayloads
  /\ in2 = in1
  /\ cfg \in OptionConfigs
  /\ out1 = None
  /\ out2 = None
  /\ cmp = None

\* The option bundle of each strategy before the caller's options.
DefaultBundle(strategy) ==
  CASE strategy = "strict" ->
         [normalizeDates |-> TRUE, sortKeys |-> TRUE, excludeNulls |-> FALSE,
          trimStrings |-> TRUE, caseSensitive |-> FALSE]
    [] strategy = "semantic" ->
         [normalizeDates |-> TRUE, sortKeys |-> TRUE, excludeNulls |-> TRUE,
          excludeEmptyStrings |-> TRUE, trimStrings |-> TRUE, caseSensitive |-> FALSE,
          precision |-> 2]
    [] OTHER ->
         [normalizeDates |-> TRUE, sortKeys |-> TRUE, excludeNulls |-> TRUE,
          trimStrings |-> TRUE, caseSensitive |-> FALSE]

\* The configuration that spells out every option: the bundle of the strategy
\* with the caller's options written over it.
WithEveryOption(config) ==
  Spread(config,
         [options |-> Spread(DefaultBundle(config.strategy),
                             Field(config, "options", NoOptions))])

\* Idempofy.this(in1, cfg)
FingerprintGiven ==
  /\ out1 = None
  /\ \E generated \in KeysDrawnBy(cfg) : out1' = This(heap, in1, cfg, generated)
  /\ UNCHANGED <<heap, in1, in2, cfg, out2, cmp>>

\* Idempofy.this(in2, config) with every option of the applied bundle
\* spelled out by the caller.
FingerprintSpelledOut ==
  /\ out2 = None
  /\ \E generated \in KeysDrawnBy(cfg) :
       out2' = This(heap, in2, WithEveryOption(cfg), generated)
  /\ UNCHANGED <<heap, in1, in2, cfg, out1, cmp>>

NextOptions == FingerprintGiven \/ FingerprintSpelledOut

SpecOptions == InitOptions /\ [][NextOptions]_vars

(***************************************************************************)
(* The objects of the caller and of the module across the calls            *)
(***************************************************************************)

\* The objects that outlive a call: the payload, the configuration and its
\* hashing configuration that the caller passes, and the module's
\* DEFAULT_HASHING_CONFIG.
LastingObjects == {"payload", "config", "hashing", "DEFAULT_HASHING_CONFIG"}

\* The store with the object written: a new object, or a new state of one.
Write(store, object, cell) ==
  [o \in DOMAIN store \cup {object} |-> IF o = object THEN cell ELSE store[o]]

\* The store after a call has returned: the objects of the call are gone.
Kept(store) == [o \in LastingObjects |-> store[o]]

\* A finalConfig that is the caller's hashing configuration itself.
FinalConfigIsConfig == "hashing"

\* const finalConfig = { ...DEFAULT_HASHING_CONFIG, ...config }: the object
\* that finalConfig names is a new one.
FinalConfigObject == "finalConfig"

\* The writes of createHashWithConfig(data, config): finalConfig is filled
\* from the defaults and the caller's configuration, and takes the generated
\* key as its secretKey.
StoreAfterHash(store, generated) ==
  LET merged == Spread(store.DEFAULT_HASHING_CONFIG, store.hashing)
      withKey(created) ==
        IF GeneratesKey(created[FinalConfigObject])
        THEN Write(created, FinalConfigObject,
                   Spread(created[FinalConfigObject], [secretKey |-> generated]))
        ELSE created
  IN withKey(Write(store, FinalConfigObject, merged))

\* The writes of canonicalizeObject(obj): keys = Object.keys(obj) is a new
\* array, and keys.sort() sorts that array in place.
StoreAfterCanonicalizeObject(store, obj) ==
  IF obj.t # "object" \/ obj.kv = <<>> THEN store
  ELSE Write(Write(store, "keys", ObjectKeys(store, obj)),
             "keys", sort(ObjectKeys(store, obj)))

\* The configuration object that the caller passes, with its hashing part.
ConfigOf(store) == Spread(store.config, [hashing |-> store.hashing])

\* The value that a strategy normalizes: the payload, its extracted fields, or
\* the payload with its dates preprocessed.
StrategyValue(store, config) ==
  CASE Field(config, "strategy", "") \in {"selective", "custom"} ->
         extractFields(store, Ref("payload"), config)
    [] Field(config, "strategy", "") = "semantic" ->
         preprocessDates(store, Ref("payload"), 1)
    [] OTHER -> Ref("payload")

StrategyOptions(config) ==
  CASE Field(config, "strategy", "") \in {"selective", "custom"} -> SelectiveOptions(config)
    [] Field(config, "strategy", "") = "semantic" -> SemanticOptions(config)
    [] OTHER -> StrictOptions(config)

\* The writes of Idempofy.this(payload, config): none when the dispatch, the
\* check of the field list, the extraction or the preprocessing raises; else
\* normalizeValue fills the new object normalized, canonicalizeObject sorts the
\* new array keys, and createHashWithConfig fills finalConfig.
StoreAfterThis(store, generated) ==
  LET hashed(normalized) ==
        IF IsThrow(normalized) THEN store
        ELSE StoreAfterHash(
               StoreAfterCanonicalizeObject(Write(store, "normalized", normalized),
                                            normalized),
               generated)
      normalize(value, options) ==
        IF IsThrow(value) THEN store
        ELSE hashed(normalizeValue(store, value, options, {}, 1).v)
      called(config) ==
        IF \/ Field(config, "strategy", "")
                \notin {"", "strict", "selective", "semantic", "custom"}
           \/ /\ Field(config, "strategy", "") \in {"selective", "custom"}
              /\ MissingFields(config)
        THEN store
        ELSE normalize(StrategyValue(store, config), StrategyOptions(config))
  IN called(ConfigOf(store))

FramePayloads ==
  {Obj(<<>>),
   Obj(<<KV(kb, Str(<<" ", "J">>)), KV(ka, Null)>>),
   Obj(<<KV(kb, Arr(<<Num(2 * Scale), Num(Scale)>>)), KV(ka, DateV(0))>>),
   Arr(<<Str(<<"b">>), Str(<<"a">>)>>)}

FrameConfigs ==
  {NoOptions, [strategy |-> "semantic"], [strategy |-> "selective"],
   [strategy |-> "selective", fields |-> <<kb, ka>>],
   [strategy |-> "custom", fields |-> <<kb>>], [strategy |-> "fuzzy"]}

FrameHashingConfigs ==
  {NoOptions,
   [generateKey |-> TRUE],
   [algorithm |-> "hmac-sha256"],
   [algorithm |-> "hmac-sha256", generateKey |-> TRUE],
   [algorithm |-> "hmac-sha512", secretKey |-> "key-1", generateKey |-> TRUE],
   [algorithm |-> "md5", generateKey |-> TRUE]}

\* Before the calls: in2 and cfg keep what the payload and the configuration
\* held when the caller made them.
InitFrame ==
  /\ \E payload \in FramePayloads, config \in FrameConfigs, hashing \in FrameHashingConfigs :
       /\ heap = [payload |-> payload, config |-> config, hashing |-> hashing,
                  DEFAULT_HASHING_CONFIG |-> DEFAULT_HASHING_CONFIG]
       /\ in2 = payload
       /\ cfg = Spread(config, [hashing |-> hashing])
  /\ in1 = Ref("payload")
  /\ out1 = None
  /\ out2 = None
  /\ cmp = None

\* Idempofy.this(payload, config)
FrameThis ==
  /\ out1 = None
  /\ \E generated \in KeysDrawnBy(ConfigOf(heap)) :
       /\ out1' = This(heap, in1, ConfigOf(heap), generated)
       /\ heap' = Kept(StoreAfterThis(heap, generated))
  /\ UNCHANGED <<in1, in2, cfg, out2, cmp>>

\* Idempofy.compare(payload, payload, config): the second call is made when the
\* first has returned.
FrameCompare ==
  /\ cmp = None
  /\ \E generated1, generated2 \in KeysDrawnBy(ConfigOf(heap)) :
       /\ cmp' = Compare(heap, in1, in1, ConfigOf(heap), generated1, generated2)
       /\ LET second(first) == Kept(StoreAfterThis(first, generated2))
              both(result1, first) == IF IsThrow(result1) THEN first ELSE second(first)
          IN heap' = both(This(heap, in1, ConfigOf(heap), generated1),
                          Kept(StoreAfterThis(heap, generated1)))
  /\ UNCHANGED <<in1, in2, cfg, out1, out2>>

\* createHashWithConfig(data, config.hashing)
FrameDigest ==
  /\ out2 = None
  /\ \E data \in HashData, generated \in KeysDrawn(heap.hashing) :
       /\ out2' = createHashWithConfig(data, heap.hashing, generated)
       /\ heap' = Kept(StoreAfterHash(heap, generated))
  /\ UNCHANGED <<in1, in2, cfg, out1, cmp>>

\* validateHash(data, expectedHash, config.hashing), the hash being the one
\* that the last createHashWithConfig returned
FrameValidate ==
  /\ out2 # None
  /\ ~IsThrow(out2)
  /\ cmp = None
  /\ \E data \in HashData, generated \in KeysDrawn(heap.hashing) :
       /\ cmp' = Bool(validateHash(data, out2.hash, heap.hashing, generated))
       /\ heap' = Kept(StoreAfterHash(heap, generated))
  /\ UNCHANGED <<in1, in2, cfg, out1, out2>>

NextFrame == FrameThis \/ FrameCompare \/ FrameDigest \/ FrameValidate

SpecFrame == InitFrame /\ [][NextFrame]_vars

\* Structural equality of two values of a heap: the same value up to the
\* insertion order of object keys, at every depth.
RECURSIVE StructEq(_, _, _)
StructEq(h, v1, v2) ==
  LET c1 == Deref(h, v1)
      c2 == Deref(h, v2)
  IN IF c1.t # c2.t THEN FALSE
     ELSE IF c1.t = "object"
     THEN /\ {c1.kv[i].k : i \in 1..Len(c1.kv)} = {c2.kv[i].k : i \in 1..Len(c2.kv)}
          /\ \A i \in 1..Len(c1.kv) : StructEq(h, c1.kv[i].v, GetProp(c2, c1.kv[i].k))
     ELSE IF c1.t = "array"
     THEN /\ Len(c1.items) = Len(c2.items)
          /\ \A i \in 1..Len(c1.items) : StructEq(h, c1.items[i], c2.items[i])
     ELSE c1 = c2

\* Whether some object inside v, at any depth, has two keys or more.
RECURSIVE HasWideObject(_, _)
HasWideObject(h, v) ==
  LET c == Deref(h, v) IN
  IF c.t = "object"
  THEN Len(c.kv) >= 2 \/ \E i \in 1..Len(c.kv) : HasWideObject(h, c.kv[i].v)
  ELSE IF c.t = "array" THEN \E i \in 1..Len(c.items) : HasWideObject(h, c.items[i])
  ELSE FALSE

\* C1: canonicalize gives one string for two values that are equal up to the
\* insertion order of object keys at any depth, the keys are written in sorted
\* order and no whitespace is written: {b:2,a:1} and {a:1,b:2} both give
\* {"a":1,"b":2}.
C1_CanonicalizeOrderInsensitive ==
  /\ (out1 # None /\ out2 # None /\ StructEq(heap, in1, in2))
       => (out1 = out2 /\ ~IsThrow(out1))
  /\ (out1 # None /\ in1 \in {Obj(<<KV(kb, Num(2 * Scale)), KV(ka, Num(Scale))>>),
                              Obj(<<KV(ka, Num(Scale)), KV(kb, Num(2 * Scale))>>)})
       => out1 = Str(<<"{", "\"", "a", "\"", ":", "1", ",", "\"", "b", "\"", ":", "2", "}">>)
  /\ (out1 # None /\ ~IsThrow(out1)) => \A i \in 1..Len(out1.s) : out1.s[i] # " "

\* Two canonicalized values that differ in the insertion order of the keys of
\* a nested object.
C1_Witness ==
  /\ out1 # None /\ out2 # None
  /\ in1 # in2 /\ StructEq(heap, in1, in2)
  /\ in1.t = "object" /\ Len(in1.kv) = 2
  /\ \E i \in 1..2 : in1.kv[i].v.t = "object" /\ in1.kv[i].v # GetProp(in2, in1.kv[i].k)
  /\ out1 = out2


\* The strategy that Idempofy.this dispatches cfg to.
StrategyOf(config) == Field(config, "strategy", "strict")

\* Whether a call produced a fingerprint result.
IsResult(out) == out # None /\ ~IsThrow(out)

\* C2: under the strict strategy with default options two payloads that differ
\* only in the insertion order of object keys, at any depth, get the same
\* fingerprint, and compare answers true.
C2_StrictKeyOrderInsensitive ==
  (StrategyOf(cfg) = "strict" /\ StructEq(heap, in1, in2)) =>
    /\ cmp # None => cmp = Bool(TRUE)
    /\ (out1 # None /\ out2 # None) =>
         (IsResult(out1) /\ IsResult(out2) /\ out1.fingerprint = out2.fingerprint)

\* Two strict fingerprints of payloads whose keys, at the top or in a nested
\* object, were inserted in different orders.
C2_Witness ==
  /\ StrategyOf(cfg) = "strict" /\ in1 # in2 /\ StructEq(heap, in1, in2)
  /\ HasWideObject(heap, in1)
  /\ IsResult(out1) /\ IsResult(out2) /\ out1.fingerprint = out2.fingerprint
  /\ cmp = Bool(TRUE)

\* Whether two payloads agree on the value resolved at each path of F.
AgreeOn(h, p1, p2, F) ==
  \A i \in 1..Len(F) : getNestedValue(h, p1, F[i]) = getNestedValue(h, p2, F[i])

\* C3: for a non-empty field list F, two payloads that agree on the value
\* resolved at each path in F get the same selective fingerprint, however they
\* differ elsewhere.
C3_SelectiveIndependence ==
  (StrategyOf(cfg) = "selective" /\ ~MissingFields(cfg)
     /\ AgreeOn(heap, in1, in2, cfg.fields)) =>
    /\ cmp # None => cmp = Bool(TRUE)
    /\ (out1 # None /\ out2 # None) =>
         (IsResult(out1) /\ IsResult(out2) /\ out1.fingerprint = out2.fingerprint)

\* Two payloads with different values of b, fingerprinted on a field list
\* without b, on which they agree.
C3_Witness ==
  /\ StrategyOf(cfg) = "selective" /\ ~MissingFields(cfg)
  /\ AgreeOn(heap, in1, in2, cfg.fields)
  /\ \A i \in 1..Len(cfg.fields) : cfg.fields[i] # kb
  /\ getNestedValue(heap, in1, kb) # getNestedValue(heap, in2, kb)
  /\ getNestedValue(heap, in1, ka) # Undefined
  /\ IsResult(out1) /\ IsResult(out2) /\ out1.fingerprint = out2.fingerprint
  /\ cmp = Bool(TRUE)

\* Whether two payloads have the same fields and differ in the value of one.
FieldValueDiffers(h, p1, p2) ==
  LET c1 == Deref(h, p1)
      c2 == Deref(h, p2)
  IN /\ c1.t = "object" /\ c2.t = "object"
     /\ {c1.kv[i].k : i \in 1..Len(c1.kv)} = {c2.kv[i].k : i \in 1..Len(c2.kv)}
     /\ \E i \in 1..Len(c1.kv) : ~StructEq(h, c1.kv[i].v, GetProp(c2, c1.kv[i].k))

\* C4: under the strict strategy two payloads that differ in the value of a
\* field never get the same fingerprint.
C4_StrictDetectsEveryChange ==
  (StrategyOf(cfg) = "strict" /\ FieldValueDiffers(heap, in1, in2)) =>
    /\ cmp # None => cmp = Bool(FALSE)
    /\ (IsResult(out1) /\ IsResult(out2)) => out1.fingerprint # out2.fingerprint

\* Whether both payloads have a value at some path of F, and not the same one.
DisagreeOn(h, p1, p2, F) ==
  \E i \in 1..Len(F) :
    /\ getNestedValue(h, p1, F[i]) # Undefined
    /\ getNestedValue(h, p2, F[i]) # Undefined
    /\ getNestedValue(h, p1, F[i]) # getNestedValue(h, p2, F[i])

\* C5: under the selective strategy with field list F two payloads that differ
\* in the value resolved at a path of F never get the same fingerprint.
C5_SelectiveDetectsChange ==
  (StrategyOf(cfg) = "selective" /\ ~MissingFields(cfg)
     /\ DisagreeOn(heap, in1, in2, cfg.fields)) =>
    /\ cmp # None => cmp = Bool(FALSE)
    /\ (IsResult(out1) /\ IsResult(out2)) => out1.fingerprint # out2.fingerprint

\* The value v with every date-typed value in it replaced by the ISO-8601 UTC
\* string of its instant.
RECURSIVE DatesAsStrings(_)
DatesAsStrings(v) ==
  IF v.t = "date" THEN Str(toISOString(v.ms))
  ELSE IF v.t = "array" THEN Arr([i \in 1..Len(v.items) |-> DatesAsStrings(v.items[i])])
  ELSE IF v.t = "object"
  THEN Obj([i \in 1..Len(v.kv) |-> KV(v.kv[i].k, DatesAsStrings(v.kv[i].v))])
  ELSE v

\* C6: under the semantic strategy a payload holding a date-typed value and the
\* payload holding, at the same position (top level, nested object or array
\* element), the ISO-8601 UTC string of the same instant get the same
\* fingerprint.
C6_SemanticDateEquivalence ==
  (StrategyOf(cfg) = "semantic" /\ in2 = DatesAsStrings(in1)) =>
    /\ cmp # None => cmp = Bool(TRUE)
    /\ (out1 # None /\ out2 # None) =>
         (IsResult(out1) /\ IsResult(out2) /\ out1.fingerprint = out2.fingerprint)

\* A date inside an array of the first payload, its ISO string at the same
\* place of the second, and the two semantic fingerprints equal.
C6_Witness ==
  /\ StrategyOf(cfg) = "semantic"
  /\ in1 = Obj(<<KV(ka, Arr(<<DateV(0)>>)), KV(kb, Num(2 * Scale))>>)
  /\ in2 = Obj(<<KV(ka, Arr(<<ISO0>>)), KV(kb, Num(2 * Scale))>>)
  /\ IsResult(out1) /\ IsResult(out2) /\ out1.fingerprint = out2.fingerprint
  /\ cmp = Bool(TRUE)


\* Whether a configuration makes each call draw a fresh random HMAC key:
\* an HMAC algorithm with generateKey set and no secretKey.
RandomlyKeyed(config) ==
  LET hashing == Field(config, "hashing", NoOptions) IN
  /\ Field(hashing, "algorithm", "sha256") \in {"hmac-sha256", "hmac-sha512"}
  /\ Field(hashing, "generateKey", FALSE)
  /\ Field(hashing, "secretKey", "") = ""

\* Whether the state and the one after it hold the same fingerprints wherever
\* both hold one, and equal payloads hold equal fingerprints.
SameFingerprints ==
  /\ (IsResult(out1) /\ IsResult(out1')) => out1'.fingerprint = out1.fingerprint
  /\ (IsResult(out2) /\ IsResult(out2')) => out2'.fingerprint = out2.fingerprint
  /\ (in1 = in2 /\ IsResult(out1') /\ IsResult(out2')) =>
       out1'.fingerprint = out2'.fingerprint
  /\ (in1 = in2 /\ cmp' # None /\ ~IsThrow(cmp')) => cmp' = Bool(TRUE)

\* C7: under every configuration but one that draws a random HMAC key
\* (an HMAC algorithm, generateKey set, no secretKey), repeated successful calls
\* with one payload return one fingerprint whatever calls happen in between,
\* and compare(p, p, config) is true.
C7_DeterministicUnlessRandomlyKeyed ==
  [][~RandomlyKeyed(cfg) => SameFingerprints]_vars

\* C7 as stated, for every configuration: repeated successful calls with one
\* payload return one fingerprint, and compare(p, p, config) is true.
C7_Deterministic == [][SameFingerprints]_vars

\* Both payloads equal and fingerprinted, and compared, under an HMAC
\* configuration that sets generateKey and supplies a key.
C7_Witness ==
  /\ in1 = in2 /\ in1 # Obj(<<>>)
  /\ "hashing" \in DOMAIN cfg
  /\ Field(cfg.hashing, "generateKey", FALSE) /\ Field(cfg.hashing, "secretKey", "") # ""
  /\ Field(cfg.hashing, "algorithm", "sha256") = "hmac-sha512"
  /\ IsResult(out1) /\ IsResult(out2) /\ out1.fingerprint = out2.fingerprint
  /\ cmp = Bool(TRUE)

\* The children of a container.
ChildrenOf(c) ==
  IF c.t = "object" THEN {c.kv[i].v : i \in 1..Len(c.kv)}
  ELSE IF c.t = "array" THEN {c.items[i] : i \in 1..Len(c.items)}
  ELSE {}

\* The cells that the cell at a refers to.
RefsOf(h, a) == {v.a : v \in {x \in ChildrenOf(h[a]) : x.t = "ref"}}

\* The cells reached from the cells S in n steps or fewer.
RECURSIVE Reach(_, _, _)
Reach(h, S, n) ==
  IF n = 0 THEN S ELSE Reach(h, S \cup UNION {RefsOf(h, a) : a \in S}, n - 1)

\* Whether the value graph of v holds a cycle.
HasCycle(h, v) ==
  /\ v.t = "ref"
  /\ \E a \in Reach(h, {v.a}, Len(h)) : a \in Reach(h, RefsOf(h, a), Len(h))

\* C8: fingerprinting a payload whose value graph holds a cycle returns a
\* result and raises no error, under each of the four strategies.
C8_CyclicPayloadFingerprinted ==
  (HasCycle(heap, in1) /\ out1 # None) => IsResult(out1)

SelectiveMissingFields == Throw("Selective strategy requires fields to be specified")

CustomMissingFields == Throw("Custom strategy requires fields to be specified")

\* Whether the configured field list is absent or empty.
NoFieldList(config) == "fields" \notin DOMAIN config \/ config.fields = <<>>

\* C9: the selective and custom strategies raise their missing-field-list
\* error, and produce no result, whenever the field list is absent or empty;
\* with a non-empty field list no call raises that error.
C9_MissingFieldList ==
  /\ (out1 # None /\ StrategyOf(cfg) = "selective" /\ NoFieldList(cfg)) =>
       out1 = SelectiveMissingFields
  /\ (out1 # None /\ StrategyOf(cfg) = "custom" /\ NoFieldList(cfg)) =>
       out1 = CustomMissingFields
  /\ (cmp # None /\ StrategyOf(cfg) = "selective" /\ NoFieldList(cfg)) =>
       cmp = SelectiveMissingFields
  /\ (cmp # None /\ StrategyOf(cfg) = "custom" /\ NoFieldList(cfg)) =>
       cmp = CustomMissingFields
  /\ ~(StrategyOf(cfg) \in {"selective", "custom"} /\ NoFieldList(cfg)) =>
       /\ out1 \notin {SelectiveMissingFields, CustomMissingFields}
       /\ cmp \notin {SelectiveMissingFields, CustomMissingFields}

\* The custom strategy called with an empty field list.
C9_Witness ==
  /\ StrategyOf(cfg) = "custom" /\ "fields" \in DOMAIN cfg /\ cfg.fields = <<>>
  /\ in1 # Obj(<<>>)
  /\ out1 = CustomMissingFields

MissingSecretKey ==
  {Throw("Secret key is required for HMAC-SHA256"),
   Throw("Secret key is required for HMAC-SHA512")}

\* C10: createHashWithConfig with an HMAC algorithm raises the
\* missing-secret-key error exactly when secretKey is absent or empty and
\* generateKey is not set; otherwise it returns a digest that reports the
\* requested algorithm.
C10_HmacSecretKey ==
  LET algorithm == Field(cfg, "algorithm", "sha256")
      noKey == Field(cfg, "secretKey", "") = ""
      generateKey == Field(cfg, "generateKey", FALSE)
  IN (out1 # None /\ algorithm \in {"hmac-sha256", "hmac-sha512"}) =>
       IF noKey /\ ~generateKey
       THEN out1 \in MissingSecretKey
       ELSE IsResult(out1) /\ out1.t = "digest" /\ out1.algorithm = algorithm

\* A digest under an HMAC algorithm with generateKey set and no key supplied.
C10_Witness ==
  /\ Field(cfg, "algorithm", "sha256") = "hmac-sha512"
  /\ Field(cfg, "secretKey", "") = "" /\ Field(cfg, "generateKey", FALSE)
  /\ IsResult(out1) /\ out1.algorithm = "hmac-sha512"


UnknownStrategy == Throw("Unknown strategy")

StrategyNames == {"strict", "selective", "semantic", "custom"}

\* What the dispatch does with the strategy name of cfg, given which names
\* must raise the unknown-strategy error.
DispatchedWith(unknown) ==
  out1 # None =>
    /\ "strategy" \notin DOMAIN cfg =>
         \E generated \in KeysDrawnBy(cfg) :
           out1 = strictStrategy(heap, in1, cfg, generated)
    /\ (StrategyOf(cfg) \in StrategyNames /\ IsResult(out1)) =>
         out1.strategy = StrategyOf(cfg)
    /\ StrategyOf(cfg) \in StrategyNames => out1 # UnknownStrategy
    /\ StrategyOf(cfg) \in unknown => out1 = UnknownStrategy

\* C11: Idempofy.this dispatches on the strategy name: an absent name behaves
\* as strict, and so does the empty name; each of the four names gives a result
\* whose strategy field is that name; every other, non-empty name raises the
\* unknown-strategy error and gives no result.
C11_DispatchOnStrategy ==
  /\ DispatchedWith({"fuzzy"})
  /\ (out1 # None /\ StrategyOf(cfg) = "") =>
       \E generated \in KeysDrawnBy(cfg) : out1 = strictStrategy(heap, in1, cfg, generated)

\* C11 as stated: every name that is not one of the four, the empty name
\* included, raises the unknown-strategy error.
C11_EveryOtherNameUnknown == DispatchedWith({"fuzzy", ""})

\* A call with the empty strategy name that returned a strict result.
C11_Witness ==
  /\ "strategy" \in DOMAIN cfg /\ cfg.strategy = ""
  /\ IsResult(out1) /\ out1.strategy = "strict"


HmacAlgorithms == {"hmac-sha256", "hmac-sha512"}

\* Whether the digest computation fails under a hashing configuration: an
\* unsupported algorithm, or an HMAC algorithm with neither key nor generateKey.
DigestFails(hashing) ==
  LET algorithm == Field(hashing, "algorithm", "sha256") IN
  \/ algorithm \notin {"sha256", "sha512"} \cup HmacAlgorithms
  \/ /\ algorithm \in HmacAlgorithms
     /\ Field(hashing, "secretKey", "") = ""
     /\ ~Field(hashing, "generateKey", FALSE)

\* C12: validateHash raises nothing: for every data, expected hash and hashing
\* configuration it answers true or false, and false whenever the digest
\* computation fails (missing HMAC key, unsupported algorithm).
C12_ValidateHashNeverRaises ==
  cmp # None =>
    /\ cmp \in {Bool(TRUE), Bool(FALSE)}
    /\ DigestFails(cfg) => cmp = Bool(FALSE)

\* validateHash answered false under an unsupported algorithm and under an
\* HMAC algorithm without a key.
C12_Witness ==
  /\ cmp = Bool(FALSE) /\ DigestFails(cfg)
  /\ Field(cfg, "algorithm", "sha256") = "hmac-sha256"

\* Whether every digest under a hashing configuration draws a fresh random
\* key: an HMAC algorithm, generateKey set and no secretKey.
DrawsRandomKey(hashing) ==
  /\ Field(hashing, "algorithm", "sha256") \in HmacAlgorithms
  /\ Field(hashing, "generateKey", FALSE)
  /\ Field(hashing, "secretKey", "") = ""

\* Whether validateHash was last called with the data and the hash of the
\* last successful createHashWithConfig.
RoundTrip == cmp # None /\ in1 = in2 /\ IsResult(out1) /\ out2 = out1.hash

\* C13: for every data and every hashing configuration under which
\* createHashWithConfig succeeds, but one that draws a random HMAC key,
\* validateHash(data, createHashWithConfig(data, config).hash, config) is true.
C13_DigestValidateRoundTrip ==
  (RoundTrip /\ ~DrawsRandomKey(cfg)) => cmp = Bool(TRUE)

\* C13 as stated, for every hashing configuration under which the digest
\* succeeds.
C13_RoundTripAlways == RoundTrip => cmp = Bool(TRUE)

\* A round trip under HMAC with a supplied key.
C13_Witness ==
  /\ RoundTrip /\ cmp = Bool(TRUE)
  /\ Field(cfg, "algorithm", "sha256") = "hmac-sha512"
  /\ Field(cfg, "secretKey", "") = "key-2"
  /\ in1 # Str(<<>>)

\* C14: for every value v that canonicalize serializes,
\* isJCSCompliant(canonicalize(v)) is true: parsing the canonical string and
\* canonicalizing the parsed value gives the same string again.
C14_CanonicalFormIdempotent == cmp # None => cmp = Bool(TRUE)

\* The canonical string of an object with its keys out of order, an escaped
\* string and a non-finite number has been found compliant.
C14_Witness ==
  /\ in1 = Obj(<<KV(kb, Str(<<"a", "\\", " ", "b">>)), KV(ka, NaN)>>)
  /\ out1 = Str(<<"{", "\"", "a", "\"", ":", "n", "u", "l", "l", ",",
                  "\"", "b", "\"", ":", "\"", "a", "\\", "\\", " ", "b", "\"", "}">>)
  /\ cmp = Bool(TRUE)

\* The value with every part that is no finite JSON value replaced by null.
RECURSIVE Nulled(_)
Nulled(v) ==
  CASE v \in NonJSONLeaves -> Null
    [] v.t = "array" -> Arr([i \in 1..Len(v.items) |-> Nulled(v.items[i])])
    [] v.t = "object" -> Obj([i \in 1..Len(v.kv) |-> KV(v.kv[i].k, Nulled(v.kv[i].v))])
    [] OTHER -> v

NullLiteral == Str(<<"n", "u", "l", "l">>)

\* C15: canonicalize emits the literal null for NaN, Infinity, -Infinity,
\* undefined, functions and symbols: alone they serialize as null, and as an
\* array element or an object member they serialize as a null in their place,
\* the member keeping its key.
C15_NonFiniteAsNull ==
  out1 # None =>
    /\ in1 \in NonJSONLeaves => out1 = NullLiteral
    /\ out1 = canonicalize(heap, Nulled(in1), 1)
    /\ \A x \in NonJSONLeaves :
         /\ in1 = Arr(<<x>>) => out1 = Str(<<"[", "n", "u", "l", "l", "]">>)
         /\ in1 = Obj(<<KV(ka, x)>>)
              => out1 = Str(<<"{", "\"", "a", "\"", ":", "n", "u", "l", "l", "}">>)

\* An array element and an object member that hold undefined and a member
\* that holds Infinity, serialized with null in their places.
C15_Witness ==
  /\ in1 = Obj(<<KV(kb, Arr(<<Undefined, Obj(<<KV(kA, Infinity)>>)>>)),
                 KV(ka, Obj(<<KV(<<"\"">>, Undefined)>>))>>)
  /\ out1 = Str(<<"{", "\"", "a", "\"", ":", "{", "\"", "\\", "\"", "\"", ":",
                  "n", "u", "l", "l", "}", ",", "\"", "b", "\"", ":", "[",
                  "n", "u", "l", "l", ",", "{", "\"", "A", "\"", ":",
                  "n", "u", "l", "l", "}", "]", "}">>)

\* Whether the two calls gave the same outcome: the same fingerprint, or the
\* same exception.
SameOutcome ==
  IF IsThrow(out1) \/ IsThrow(out2) THEN out1 = out2
  ELSE out1.fingerprint = out2.fingerprint

\* C16: for a payload P, a non-empty list F of top-level field names and
\* transformations T, custom(P, F, T) returns the fingerprint of
\* selective(P', F), where P' maps each field of F to its transformed value,
\* or to P's own value where T has no entry; where a transformation raises an
\* exception, custom raises it. custom with no transformations returns the
\* fingerprint of selective on the payload itself.
C16_CustomIsSelectiveOfTransformed ==
  /\ (out1 # None /\ out2 # None) => SameOutcome
  /\ (out1 # None /\ cfg.transformations = NoOptions)
       => /\ IsResult(out1)
          /\ out1.fingerprint
               = selectiveStrategy(heap, in1, SelectiveOf(cfg), "").fingerprint

\* Both calls have returned for a transformation that changes the
\* fingerprint: $upper of b registered for a, under case-sensitive options.
C16_Witness ==
  /\ IsResult(out1) /\ IsResult(out2)
  /\ in1 = Obj(<<KV(ka, Str(<<"J">>)), KV(kb, Str(<<" ", "j", "a">>))>>)
  /\ cfg.fields = <<ka, kb>>
  /\ cfg.transformations = (ka :> [t |-> "$upper", path |-> kb])
  /\ "options" \in DOMAIN cfg
  /\ out1.fingerprint
       # customStrategy(heap, in1, [cfg EXCEPT !.transformations = NoOptions], "").fingerprint

\* The SHA-256 digest of a string.
Sha256Of(chars) == createHash("sha256", Str(chars))

NullAndFraction == Obj(<<KV(ka, Null), KV(kb, Num((9 * Scale) \div 8))>>)

\* C17: in every strategy the options applied are the default bundle of the
\* strategy with the caller's options written over it: the fingerprint is that
\* of the call in which the caller spells out every option of that bundle.
\* On {a: null, b: 1.125} the defaults show: strict keeps the null, selective
\* and custom drop it, semantic drops it and rounds to two decimals, and
\* semantic with excludeNulls: false keeps the null and still rounds.
C17_DefaultsOverriddenByCaller ==
  /\ (out1 # None /\ out2 # None) => (IsResult(out1) /\ out1 = out2)
  /\ (out1 # None /\ in1 = NullAndFraction /\ "options" \notin DOMAIN cfg) =>
       out1.fingerprint =
         CASE cfg.strategy = "strict" ->
                Sha256Of(<<"{", "\"", "a", "\"", ":", "n", "u", "l", "l", ",",
                           "\"", "b", "\"", ":", "1", ".", "1", "2", "5", "}">>)
           [] cfg.strategy = "semantic" ->
                Sha256Of(<<"{", "\"", "b", "\"", ":", "1", ".", "1", "3", "}">>)
           [] OTHER ->
                Sha256Of(<<"{", "\"", "b", "\"", ":", "1", ".", "1", "2", "5", "}">>)
  /\ (out1 # None /\ in1 = NullAndFraction /\ cfg.strategy = "semantic"
       /\ "options" \in DOMAIN cfg /\ cfg.options = [excludeNulls |-> FALSE]) =>
       out1.fingerprint =
         Sha256Of(<<"{", "\"", "a", "\"", ":", "n", "u", "l", "l", ",",
                    "\"", "b", "\"", ":", "1", ".", "1", "3", "}">>)

\* The semantic strategy has fingerprinted {a: null, b: 1.125} for a caller
\* who sets excludeNulls: false only, and the spelled-out call has returned.
C17_Witness ==
  /\ in1 = NullAndFraction
  /\ cfg = [strategy |-> "semantic", options |-> [excludeNulls |-> FALSE]]
  /\ IsResult(out1) /\ IsResult(out2)
  /\ out1.fingerprint # This(heap, in1, [strategy |-> "semantic"], "").fingerprint

\* C18: after any call of Idempofy.this, Idempofy.compare,
\* createHashWithConfig or validateHash, failed calls and calls under
\* generateKey included, the payload and the configuration that the caller
\* passed hold what they held before, and so does DEFAULT_HASHING_CONFIG.
C18_InputsUnchanged ==
  /\ heap.payload = in2
  /\ ConfigOf(heap) = cfg
  /\ heap.DEFAULT_HASHING_CONFIG = DEFAULT_HASHING_CONFIG

\* A fingerprint under a generated HMAC key, a comparison and a digest have
\* been made of a payload whose keys are out of order.
C18_Witness ==
  /\ IsResult(out1) /\ cmp # None /\ out2 # None
  /\ DrawsRandomKey(heap.hashing)
  /\ in2 = Obj(<<KV(kb, Str(<<" ", "J">>)), KV(ka, Null)>>)

\* A call that failed after its hashing configuration was built.
C18_WitnessFailed ==
  /\ out1 = Throw("Unsupported hashing algorithm") /\ heap.hashing.generateKey

\* Whether the marker "[Circular]" stands somewhere in a normalized value.
RECURSIVE HasMarker(_)
HasMarker(v) ==
  \/ v = Str(CircularMarker)
  \/ \E child \in ChildrenOf(v) : HasMarker(child)

\* C19: normalizeValue puts the marker "[Circular]" only in place of a
\* container that is its own ancestor: the normalized value of a payload
\* without a cycle, one with a container reached through two branches
\* included, holds no marker.
C19_MarkerOnlyOnCycle ==
  (out1 # None /\ ~IsThrow(out1) /\ ~HasCycle(heap, in1)) => ~HasMarker(out1)

\* The walk of a parsed path as C20 states it: Absent (undefined) where a
\* string segment meets an array, an integer segment meets an object, a key is
\* missing, an index is out of range or the value is no container; the leaf
\* otherwise.
RECURSIVE Evaluate(_, _)
Evaluate(value, segments) ==
  IF segments = <<>> THEN value
  ELSE LET segment == Head(segments) IN
       CASE value.t = "array" ->
              IF /\ segment.t = "number" /\ segment.k = "finite" /\ segment.n >= 0
                 /\ segment.n \div Scale < Len(value.items)
              THEN Evaluate(value.items[(segment.n \div Scale) + 1], Tail(segments))
              ELSE Undefined
         [] value.t = "object" ->
              IF segment.t = "string" /\ hasOwnProperty(value, segment.s)
              THEN Evaluate(GetProp(value, segment.s), Tail(segments))
              ELSE Undefined
         [] OTHER -> Undefined

\* C20: getNestedValue of a payload and a non-empty path is the walk of the
\* parsed path: Absent whenever a string segment is applied to an array, an
\* integer segment to an object, a key is missing, an index is out of range or
\* the current value is null, undefined or no container, and the leaf value
\* only otherwise.
C20_GetNestedValueWalk ==
  (out1 # None /\ in2.s # <<>>) => out1 = Evaluate(in1, parsePath(in2.s))

\* C21: parsePath returns, for every path, a sequence whose segments are
\* non-empty field names or non-negative integer indices.
C21_ParsePathWellTyped ==
  out2 # None =>
    /\ out2.t = "array"
    /\ \A i \in 1..Len(out2.items) :
         \/ out2.items[i].t = "string" /\ out2.items[i].s # <<>>
         \/ /\ out2.items[i].t = "number" /\ out2.items[i].k = "finite"
            /\ out2.items[i].n >= 0 /\ out2.items[i].n % Scale = 0

(***************************************************************************)
(* Single transformations and number rounding                              *)
(***************************************************************************)

\* The largest count of eighths among the numbers of this universe, and the
\* largest number of decimal places asked for.
MaxEighths == 12
MaxPrecision == 2

\* The multiples of 0.125 from -MaxEighths / 8 to MaxEighths / 8: every product
\* with a power of ten is exact in a double, ties included.
EighthNumbers == {Num(k * (Scale \div 8)) : k \in (0 - MaxEighths)..MaxEighths}

TransformLeaves ==
  EighthNumbers
  \cup {DateV(0), DateV(1), InvalidDate, Str(toISOString(1)), Str(ISONoMillis),
        Str(<<"J">>), Str(<<>>), Null, Undefined, Bool(TRUE), NaN}

TransformOperators ==
  {[t |-> "$date", path |-> ka]} \cup {[t |-> "$round", p |-> p] : p \in 0..MaxPrecision}

\* The payload {a: in2}, or {} when in2 is undefined.
InitTransform ==
  /\ heap = NoHeap
  /\ in2 \in TransformLeaves
  /\ in1 = IF in2 = Undefined THEN Obj(<<>>) ELSE Obj(<<KV(ka, in2)>>)
  /\ cfg \in TransformOperators
  /\ out1 = None
  /\ out2 = None
  /\ cmp = None

\* applyTransformation(in1, 'a', cfg)
ApplyTransformation ==
  /\ out1 = None
  /\ out1' = applyTransformation(heap, in1, ka, cfg)
  /\ UNCHANGED <<heap, in1, in2, cfg, out2, cmp>>

\* normalizeValue(in2, {precision: p}) for the p of a $round operator
NormalizePrecision ==
  /\ out2 = None
  /\ cfg.t = "$round"
  /\ out2' = normalizeValue(heap, in2, [precision |-> cfg.p], {}, 1).v
  /\ UNCHANGED <<heap, in1, in2, cfg, out1, cmp>>

NextTransform == ApplyTransformation \/ NormalizePrecision

SpecTransform == InitTransform /\ [][NextTransform]_vars

\* C22: $date yields the ISO-8601 UTC form of a date-typed value or of a
\* parseable date string, and for every other resolved value (a number, an
\* absent value, a string that is no date) the raw value itself; it never
\* raises.
C22_DateOrRawValue ==
  (out1 # None /\ cfg.t = "$date") =>
    out1 = (IF in2.t = "date" /\ in2.ms >= 0 THEN Str(toISOString(in2.ms))
            ELSE IF in2.t = "string" /\ DateParse(in2.s) >= 0
            THEN Str(toISOString(DateParse(in2.s)))
            ELSE in2)

\* n thousandths rounded to p decimal places, a tie going away from zero.
RoundHalfAwayFromZero(n, p) ==
  LET magnitude == IF n < 0 THEN 0 - n ELSE n
      rounded == ((2 * magnitude * Pow10(p) + Scale) \div (2 * Scale)) * (Scale \div Pow10(p))
  IN IF n < 0 THEN 0 - rounded ELSE rounded

\* C23: the precision option of normalization and $round(p) both round a
\* number to p decimal places with a tie going away from zero, whatever the
\* sign, and give the same result.
C23_RoundsHalfAwayFromZero ==
  (cfg.t = "$round" /\ in2.t = "number" /\ in2.k = "finite") =>
    /\ out1 # None => out1 = Num(RoundHalfAwayFromZero(in2.n, cfg.p))
    /\ out2 # None => out2 = Num(RoundHalfAwayFromZero(in2.n, cfg.p))
    /\ (out1 # None /\ out2 # None) => out1 = out2

(***************************************************************************)
(* Normalization of acyclic values under every setting of the options      *)
(***************************************************************************)

TreeLeaves ==
  {Null, Undefined, Bool(TRUE), Num((9 * Scale) \div 8), Str(<<>>), Str(<<" ">>),
   Str(<<" ", "J">>), Str(<<"j">>), DateV(1)}

TreeSeconds == {Null, Undefined, Str(<<" ">>), Str(<<"J">>)}

TreeInner ==
  {Arr(<<>>), Obj(<<>>)}
  \cup {Arr(<<x>>) : x \in TreeLeaves}
  \cup {Arr(<<x, y>>) : x \in TreeLeaves, y \in TreeSeconds}
  \cup {Obj(<<KV(ka, x)>>) : x \in TreeLeaves}
  \cup {Obj(<<KV(kA, x)>>) : x \in TreeLeaves}
  \cup {Obj(<<KV(kb, x), KV(ka, y)>>) : x \in TreeLeaves, y \in TreeSeconds}
  \cup {Obj(<<KV(kA, x), KV(ka, y)>>) : x \in TreeLeaves, y \in TreeSeconds}

TreeValues ==
  TreeLeaves \cup TreeInner
  \cup {Obj(<<KV(kb, Arr(<<x>>)), KV(ka, Obj(<<KV(kA, y)>>))>>) :
          x \in TreeSeconds, y \in TreeSeconds}

NormalizationFlags ==
  {"normalizeDates", "excludeNulls", "excludeEmptyStrings", "sortKeys", "trimStrings",
   "caseSensitive"}

\* The options structs that set a subset of the flags, with and without a
\* precision.
TreeOptions ==
  {[k \in set |-> TRUE] : set \in SUBSET NormalizationFlags}
  \cup {Spread([k \in set |-> TRUE], [precision |-> MaxPrecision]) :
          set \in SUBSET {"excludeNulls", "caseSensitive", "trimStrings"}}

InitTree ==
  /\ heap = NoHeap
  /\ in1 \in TreeValues
  /\ in2 = in1
  /\ cfg \in TreeOptions
  /\ out1 = None
  /\ out2 = None
  /\ cmp = None

\* normalizeValue(in1, cfg)
NormalizeTree ==
  /\ out1 = None
  /\ out1' = normalizeValue(heap, in1, cfg, {}, 1).v
  /\ UNCHANGED <<heap, in1, in2, cfg, out2, cmp>>

\* normalizeValue(out1, cfg), out1 being the result of NormalizeTree
NormalizeAgain ==
  /\ out1 # None
  /\ out2 = None
  /\ out2' = IF IsThrow(out1) THEN out1 ELSE normalizeValue(heap, out1, cfg, {}, 1).v
  /\ UNCHANGED <<heap, in1, in2, cfg, out1, cmp>>

NextTree == NormalizeTree \/ NormalizeAgain

SpecTree == InitTree /\ [][NextTree]_vars

IsNullish(value) == value.t \in {"null", "undefined"}

\* The elements an array keeps: a null or undefined element when excludeNulls
\* is unset, and of the other elements those that normalization does not drop.
RECURSIVE KeptItems(_, _)
KeptItems(items, options) ==
  IF items = <<>> THEN <<>>
  ELSE LET item == Head(items)
           normalized == normalizeValue(NoHeap, item, options, {}, 1).v
       IN (IF IsNullish(item)
           THEN IF Opt(options, "excludeNulls") THEN <<>> ELSE <<item>>
           ELSE IF normalized = Undefined THEN <<>> ELSE <<normalized>>)
          \o KeptItems(Tail(items), options)

NormalizedKey(key, options) ==
  IF Opt(options, "caseSensitive") THEN key ELSE toLowerCase(key)

\* C24: a null or undefined member of an array or object is dropped exactly
\* when excludeNulls is set: unset, the member stays as it is at its key or
\* position; set, it is left out and the other elements keep their order.
C24_NullishDroppedIffExcludeNulls ==
  (out1 # None /\ ~IsThrow(out1)) =>
    /\ in1.t = "array" => out1 = Arr(KeptItems(in1.items, cfg))
    /\ in1.t = "object" =>
         \A i \in 1..Len(in1.kv) :
           (/\ IsNullish(in1.kv[i].v)
            /\ \A j \in 1..Len(in1.kv) :
                 j # i => NormalizedKey(in1.kv[j].k, cfg) # NormalizedKey(in1.kv[i].k, cfg))
           => /\ hasOwnProperty(out1, NormalizedKey(in1.kv[i].k, cfg))
                 <=> ~Opt(cfg, "excludeNulls")
              /\ ~Opt(cfg, "excludeNulls")
                 => GetProp(out1, NormalizedKey(in1.kv[i].k, cfg)) = in1.kv[i].v

\* C25: a string is trimmed (trimStrings), then lower-cased (caseSensitive
\* false), then dropped when the resulting string is empty and
\* excludeEmptyStrings is set, so a whitespace-only string is dropped like the
\* empty string under trimStrings and excludeEmptyStrings.
C25_TrimLowerThenDropEmpty ==
  (out1 # None /\ in1.t = "string") =>
    LET trimmed == IF Opt(cfg, "trimStrings") THEN trim(in1.s) ELSE in1.s
        cased == IF Opt(cfg, "caseSensitive") THEN trimmed ELSE toLowerCase(trimmed)
    IN out1 = IF Opt(cfg, "excludeEmptyStrings") /\ cased = <<>> THEN Undefined
              ELSE Str(cased)

\* A JSON value: null, a boolean, a finite number, a string, or an array or
\* object of JSON values.
RECURSIVE IsJSONValue(_)
IsJSONValue(value) ==
  CASE value.t \in {"null", "boolean", "string"} -> TRUE
    [] value.t = "number" -> value.k = "finite"
    [] value.t = "array" -> \A i \in 1..Len(value.items) : IsJSONValue(value.items[i])
    [] value.t = "object" -> \A i \in 1..Len(value.kv) : IsJSONValue(value.kv[i].v)
    [] OTHER -> FALSE

\* C26: every normalization option is opt-in: normalizeValue(v, {}) is
\* structurally equal to v for every acyclic JSON value v.
C26_EmptyOptionsChangeNothing ==
  (out1 # None /\ cfg = NoOptions /\ IsJSONValue(in1)) => out1 = in1

(***************************************************************************)
(* Deterministic strings of payloads that differ in key insertion order    *)
(***************************************************************************)

OrderLeaves == {Num(Scale), Num(2 * Scale), Str(<<"J">>), Null}

OrderValues ==
  {Obj(<<KV(k1, x), KV(k2, y)>>) :
     k1 \in {ka, kb, kA}, k2 \in {ka, kb, kA}, x \in OrderLeaves, y \in OrderLeaves}
  \cup {Obj(<<KV(kb, Arr(<<Obj(<<KV(kA, x), KV(ka, y)>>)>>)), KV(ka, x)>>) :
          x \in OrderLeaves, y \in OrderLeaves}

\* The value with the members of every object in the opposite insertion
\* order.
RECURSIVE Reordered(_)
RECURSIVE ReorderedMembers(_, _)
ReorderedMembers(kv, acc) ==
  IF kv = <<>> THEN acc
  ELSE ReorderedMembers(Tail(kv), <<KV(Head(kv).k, Reordered(Head(kv).v))>> \o acc)

Reordered(value) ==
  CASE value.t = "array" -> Arr([i \in 1..Len(value.items) |-> Reordered(value.items[i])])
    [] value.t = "object" -> Obj(ReorderedMembers(value.kv, <<>>))
    [] OTHER -> value

OrderOptions ==
  {[k \in set |-> TRUE] : set \in SUBSET NormalizationFlags}
  \cup {Spread([k \in set |-> TRUE], [useJCS |-> b]) :
          set \in SUBSET {"sortKeys", "caseSensitive"}, b \in BOOLEAN}

InitOrder ==
  /\ heap = NoHeap
  /\ in1 \in {v \in OrderValues : v.kv[1].k # v.kv[2].k}
  /\ in2 = Reordered(in1)
  /\ cfg \in OrderOptions
  /\ out1 = None
  /\ out2 = None
  /\ cmp = None

\* createDeterministicString(in1, cfg)
DeterministicFirst ==
  /\ out1 = None
  /\ out1' = createDeterministicString(heap, in1, cfg)
  /\ UNCHANGED <<heap, in1, in2, cfg, out2, cmp>>

\* createDeterministicString(in2, cfg)
DeterministicSecond ==
  /\ out2 = None
  /\ out2' = createDeterministicString(heap, in2, cfg)
  /\ UNCHANGED <<heap, in1, in2, cfg, out1, cmp>>

NextOrder == DeterministicFirst \/ DeterministicSecond

SpecOrder == InitOrder /\ [][NextOrder]_vars

\* C27: unless useJCS is false, createDeterministicString gives the same
\* string for two values that differ only in the insertion order of object
\* keys, under every setting of the other options.
C27_KeyOrderIrrelevant ==
  (out1 # None /\ out2 # None /\ ~("useJCS" \in DOMAIN cfg /\ cfg.useJCS = FALSE))
    => out1 = out2

(***************************************************************************)
(* The warnings of the semantic strategy                                   *)
(***************************************************************************)

kTime == <<"t", "i", "m", "e">>
kDate == <<"d", "a", "T", "e">>
kSubTime == <<"s", "u", "b", "T", "i", "m", "e">>

SemanticKeys == {ka, kTime, kDate, kSubTime}

SemanticLeaves == {Num(Scale), Str(<<"J">>), Null}

SemanticPayloads ==
  {Null, Undefined, Num(0), Num(Scale), Str(<<>>), Str(<<"J">>), Bool(FALSE), Bool(TRUE),
   DateV(1), Arr(<<>>), Arr(<<Num(Scale)>>), Obj(<<>>)}
  \cup {Obj(<<KV(k, x)>>) : k \in SemanticKeys, x \in SemanticLeaves}
  \cup {Obj(<<KV(k1, x), KV(k2, Num(Scale))>>) :
          k1 \in SemanticKeys, k2 \in SemanticKeys \ {ka}, x \in SemanticLeaves}

SemanticConfigs ==
  {NoOptions,
   [options |-> [excludeNulls |-> FALSE]],
   [options |-> [caseSensitive |-> TRUE, sortKeys |-> FALSE]],
   [hashing |-> [algorithm |-> "sha512"]],
   [hashing |-> [algorithm |-> "hmac-sha256"]]}

InitSemantic ==
  /\ heap = NoHeap
  /\ in1 \in {p \in SemanticPayloads : p.t = "object" => \A i, j \in 1..Len(p.kv) :
                                                           i # j => p.kv[i].k # p.kv[j].k}
  /\ in2 = in1
  /\ cfg \in SemanticConfigs
  /\ out1 = None
  /\ out2 = None
  /\ cmp = None

\* semanticStrategy(in1, cfg)
Semantic ==
  /\ out1 = None
  /\ out1' = semanticStrategy(heap, in1, cfg, "")
  /\ UNCHANGED <<heap, in1, in2, cfg, out2, cmp>>

\* The digest alone: preprocessDates, createDeterministicString and
\* createHashWithConfig under the semantic options.
SemanticDigest ==
  /\ out2 = None
  /\ LET hashed(preprocessedPayload) ==
           IF IsThrow(preprocessedPayload) THEN preprocessedPayload
           ELSE HashOf(heap, preprocessedPayload, SemanticOptions(cfg), cfg, "")
     IN out2' = hashed(preprocessDates(heap, in2, 1))
  /\ UNCHANGED <<heap, in1, in2, cfg, out1, cmp>>

NextSemantic == Semantic \/ SemanticDigest

SpecSemantic == InitSemantic /\ [][NextSemantic]_vars

\* Some top-level key of the payload contains "timestamp", "time" or "date",
\* whatever the case of its letters.
HasTimeKey(payload) ==
  \E i \in 1..Len(ObjectKeys(NoHeap, payload)) :
    LET lower == toLowerCase(ObjectKeys(NoHeap, payload)[i]) IN
    \/ includes(lower, <<"t", "i", "m", "e", "s", "t", "a", "m", "p">>)
    \/ includes(lower, kTime)
    \/ includes(lower, toLowerCase(kDate))

\* C28: the semantic strategy warns whenever the fields it reports as included
\* are none and whenever a top-level key contains "timestamp", "time" or
\* "date" in any case; a payload with fields and no such key gets no warning;
\* and the warnings neither fail the call nor change the fingerprint.
C28_SemanticWarnings ==
  /\ IsResult(out1) =>
       /\ out1.includedFields = <<>> => out1.warnings # <<>>
       /\ HasTimeKey(in1) =>
            \E i \in 1..Len(out1.warnings) : out1.warnings[i].w = "Timestamp fields detected"
       /\ (out1.includedFields # <<>> /\ ~HasTimeKey(in1)) => out1.warnings = <<>>
  /\ (out1 # None /\ out2 # None) =>
       /\ IsThrow(out1) <=> IsThrow(out2)
       /\ IsThrow(out1) => out1 = out2
       /\ IsResult(out1) => out1.fingerprint = out2.hash

\* C28 (amended): the semantic strategy warns whenever the payload is of
\* object type (an object, array or date) and has no keys, and whenever a
\* top-level key contains "timestamp", "time" or "date" in any case; a payload
\* that is null or no object gets no warning though its included fields are
\* none, and so does a payload with fields and no such key; the warnings
\* neither fail the call nor change the fingerprint.
C28_SemanticWarningsOfObjects ==
  /\ IsResult(out1) =>
       /\ (out1.includedFields = <<>> /\ in1.t \in {"object", "array", "date"})
            => \E i \in 1..Len(out1.warnings) : out1.warnings[i].w = "Empty object"
       /\ (out1.includedFields = <<>> /\ in1.t \notin {"object", "array", "date"})
            => out1.warnings = <<>>
       /\ HasTimeKey(in1) =>
            \E i \in 1..Len(out1.warnings) : out1.warnings[i].w = "Timestamp fields detected"
       /\ (out1.includedFields # <<>> /\ ~HasTimeKey(in1)) => out1.warnings = <<>>
  /\ (out1 # None /\ out2 # None) =>
       /\ IsThrow(out1) <=> IsThrow(out2)
       /\ IsThrow(out1) => out1 = out2
       /\ IsResult(out1) => out1.fingerprint = out2.hash

C28_Witness ==
  /\ in1 = Obj(<<KV(kSubTime, Null), KV(kTime, Num(Scale))>>)
  /\ cfg = NoOptions
  /\ IsResult(out1)
  /\ out1.warnings = <<[w |-> "Timestamp fields detected", fields |-> <<kSubTime, kTime>>]>>
  /\ out2 # None
  /\ out1.fingerprint = out2.hash

\* An acyclic value of JSON values and dates.
RECURSIVE IsJSONOrDate(_)
IsJSONOrDate(value) ==
  CASE value.t = "date" -> TRUE
    [] value.t = "array" -> \A i \in 1..Len(value.items) : IsJSONOrDate(value.items[i])
    [] value.t = "object" -> \A i \in 1..Len(value.kv) : IsJSONOrDate(value.kv[i].v)
    [] OTHER -> IsJSONValue(value)

\* C29: normalization is idempotent: normalizing the normalized value again
\* under the same options returns it unchanged, for every acyclic value of
\* JSON values and dates that normalization does not drop.
C29_NormalizeIdempotent ==
  (out1 # None /\ out2 # None /\ IsJSONOrDate(in1) /\ out1 # Undefined) => out2 = out1

(***************************************************************************)
(* Selective and custom fingerprints under two lists of the same fields    *)
(***************************************************************************)

FieldsLeaves == {Num((3 * Scale) \div 2), Str(<<"J">>), Null}

FieldsPayloads ==
  {Obj(<<KV(ka, x), KV(kA, y), KV(kb, Str(<<"j">>))>>) :
     x \in FieldsLeaves, y \in FieldsLeaves}

GivenLists == { <<ka>>, <<ka, kb>>, <<ka, kA>>, <<kb, kA, ka>> }

MaxFields == 3

\* The lists of at most MaxFields fields over the fields of the list given:
\* its permutations and its lists with a field repeated.
Relistings(fields) ==
  {list \in UNION {[1..n -> {ka, kb, kA}] : n \in 1..MaxFields} :
     {list[i] : i \in 1..Len(list)} = {fields[i] : i \in 1..Len(fields)}}

FieldsStrategies ==
  {[strategy |-> "selective"],
   [strategy |-> "custom", transformations |-> (ka :> [t |-> "$round", p |-> 0])]}

FieldsOptionParts ==
  {NoOptions,
   [options |-> [caseSensitive |-> TRUE]],
   [options |-> [sortKeys |-> FALSE, caseSensitive |-> TRUE]],
   [options |-> [sortKeys |-> FALSE]]}

\* in2 is the second field list, as an array of strings.
InitFields ==
  /\ heap = NoHeap
  /\ in1 \in FieldsPayloads
  /\ cfg \in {Spread(Spread(s, [fields |-> F]), o) :
                s \in FieldsStrategies, F \in GivenLists, o \in FieldsOptionParts}
  /\ in2 \in {Arr([i \in 1..Len(list) |-> Str(list[i])]) : list \in Relistings(cfg.fields)}
  /\ out1 = None
  /\ out2 = None
  /\ cmp = None

FieldNames(array) == [i \in 1..Len(array.items) |-> array.items[i].s]

\* Idempofy.this(in1, cfg)
FingerprintListed ==
  /\ out1 = None
  /\ out1' = This(heap, in1, cfg, "")
  /\ UNCHANGED <<heap, in1, in2, cfg, out2, cmp>>

\* Idempofy.this(in1, {...cfg, fields: in2})
FingerprintRelisted ==
  /\ out2 = None
  /\ out2' = This(heap, in1, [cfg EXCEPT !.fields = FieldNames(in2)], "")
  /\ UNCHANGED <<heap, in1, in2, cfg, out1, cmp>>

NextFields == FingerprintListed \/ FingerprintRelisted

SpecFields == InitFields /\ [][NextFields]_vars

\* C30: the selective and custom fingerprints depend on the set of requested
\* fields only: a permuted list and a list with a field repeated give the same
\* fingerprint, while includedFields is the list as it was supplied.
C30_FieldSetDecides ==
  /\ IsResult(out1) => out1.includedFields = cfg.fields
  /\ IsResult(out2) => out2.includedFields = FieldNames(in2)
  /\ (out1 # None /\ out2 # None) =>
       /\ IsResult(out1) /\ IsResult(out2)
       /\ out1.fingerprint = out2.fingerprint

====
